---- MODULE Spec2Model ----
(***************************************************************************)
(* Rubik's cube state/move model (src/src/core) and the multi-strategy     *)
(* solver (src/src/algorithms/astar_solver.py).                            *)
(*                                                                         *)
(* A cube state is the sequence of the 54 labels of the flattened numpy    *)
(* array of the source: source position i (0..53) is element i + 1.  Face  *)
(* f owns source positions 9f .. 9f+8, row-major (Front 0, Right 1,        *)
(* Back 2, Left 3, Up 4, Down 5).  The move definitions below are written  *)
(* with the source's 0-based positions; only At, Get, Put and the two face *)
(* rotations shift by one.                                                 *)
(***************************************************************************)
EXTENDS Integers, Sequences, FiniteSets, TLC

VARIABLES
  \* the RubikCube object
  state,          \* its 54 labels
  move_history,   \* the moves executed on it, in order
  move_count,     \* its move_count attribute
  start,          \* the array it was constructed with
  \* the AStarSolver object
  max_depth, timeout, statistics,
  \* one call of AStarSolver.solve
  pc,             \* "idle", the strategy that is running, or "done"
  input,          \* the arguments of the call: the cube as it was handed to solve,
                  \* the heuristic name, and the statistics as they were then
  returned,       \* "nothing" | "list" | "None" | "ValueError"
  result,         \* the returned move list when returned = "list"
  strategies,     \* the strategies started so far, in order
  expanded,       \* BFS nodes expanded + enumeration lengths tried + greedy iterations
  \* locals of _fast_bfs
  queue, visited,
  depth,          \* the loop variable of _fast_bfs, or of solve_iterative_deepening
  dequeued,       \* history of _fast_bfs: the full states it has taken off the queue
  unseen_skips,   \* history of _fast_bfs: the states it skipped as visited the first
                  \* time a node with that state was taken off the queue
  \* local of _reverse_solve
  length,
  \* locals of _brute_force_solve
  working_cube, solution, iteration,
  \* one call of MoveOptimizer.optimize_sequence: its argument and its result
  sequence, optimized,
  \* one call of AStarSolver._get_valid_moves: its argument (the parameter moves)
  path,
  \* the calls of solve on one cube that have returned, in call order: the
  \* heuristic name handed to each and what it returned
  solutions,
  \* numpy's global generator and the calls of RubikCube.scramble
  np_random,      \* the stream it draws from (a seed, or NoSeed) and the draws taken
  draws,          \* per stream, the draws it has produced so far
  scrambles,      \* one record per call of scramble, in call order
  \* the cube object at hand and a second one
  raised,         \* what the last call of a method of the cube raised, or "none"
  other,          \* the second cube object: made by copy(), or none yet
  shared          \* the attributes whose storage the two objects both refer to

cube_vars   == <<state, move_history, move_count, start, raised>>
solver_vars == <<max_depth, timeout, statistics>>
call_vars   == <<pc, input, returned, result, strategies, expanded>>
bfs_vars    == <<queue, visited, depth, dequeued, unseen_skips>>
rev_vars    == <<length>>
brute_vars  == <<working_cube, solution, iteration>>
search_vars == <<queue, visited, depth, dequeued, unseen_skips, length, working_cube, solution, iteration>>
opt_vars    == <<sequence, optimized>>
rng_vars    == <<np_random, draws>>
copy_vars   == <<other, shared>>
vars == <<cube_vars, solver_vars, call_vars, search_vars, opt_vars, rng_vars, scrambles,
         copy_vars, path, solutions>>

(***************************************************************************)
(* Bounds of the model.                                                    *)
(***************************************************************************)
\* longest move_history the cube actions build
MaxMoves == 2
\* longest scramble put on the cube before solve is called
MaxScramble == 2
\* most calls of scramble in one behaviour
MaxCalls == 2

(***************************************************************************)
(* MoveEngine (src/src/core/moves.py)                                      *)
(***************************************************************************)
\* the source's positions, 0-based
Idx == 0..53

\* a 54-entry function evaluated into a stored array (the identity on arrays)
AsArray(f) == SubSeq(f, 1, 54)

\* the element of a one-element set; { e(x) : x \in {v} } under it is e(v)
\* with v evaluated once, however often e uses it
The(S) == CHOOSE x \in S : TRUE

\* state[i]
At(s, i) == s[i + 1]

\* MoveEngine.moves: the 18 keys, in dictionary order
get_all_moves ==
  << "U", "U'", "U2", "D", "D'", "D2", "L", "L'", "L2",
     "R", "R'", "R2", "F", "F'", "F2", "B", "B'", "B2" >>

MoveSet == { get_all_moves[k] : k \in 1..Len(get_all_moves) }

is_valid_move(m) == m \in MoveSet

\* state[[a, b, c]] read as a 3-tuple (numpy fancy indexing / a 3-slice)
Get(s, idx) == << At(s, idx[1]), At(s, idx[2]), At(s, idx[3]) >>

\* a faulty assignment: the first value written to all three positions
Put_first_value(s, idx, vals) ==
  [k \in 1..54 |-> IF k - 1 \in {idx[1], idx[2], idx[3]} THEN vals[1] ELSE s[k]]

\* state[[a, b, c]] = vals : in-place assignment of three positions
Put(s, idx, vals) ==
  [k \in 1..54 |-> IF k - 1 = idx[1] THEN vals[1]
                   ELSE IF k - 1 = idx[2] THEN vals[2]
                   ELSE IF k - 1 = idx[3] THEN vals[3]
                   ELSE s[k]]

\* state[dst] = state[src] : the right-hand side is read before the write
Copy(s, dst, src) == Put(s, dst, Get(s, src))

\* a faulty rotation: the nine facelets of the face shifted by one, center included
_rotate_face_shifted(s, face_idx) ==
  LET face_start == face_idx * 9
  IN  [k \in 1..54 |->
        IF k - 1 >= face_start /\ k - 1 < face_start + 9
        THEN At(s, face_start + ((k - face_start) % 9))
        ELSE s[k]]

\* np.rot90(face, -1): new[r][c] = old[2-c][r]
_rotate_face_clockwise(s, face_idx) ==
  LET face_start == face_idx * 9
  IN  [k \in 1..54 |->
        IF k - 1 >= face_start /\ k - 1 < face_start + 9
        THEN LET r == (k - 1 - face_start) \div 3
                 c == (k - 1 - face_start) % 3
             IN  At(s, face_start + (2 - c) * 3 + r)
        ELSE s[k]]

\* np.rot90(face, 1): new[r][c] = old[c][2-r]
_rotate_face_counterclockwise(s, face_idx) ==
  LET face_start == face_idx * 9
  IN  [k \in 1..54 |->
        IF k - 1 >= face_start /\ k - 1 < face_start + 9
        THEN LET r == (k - 1 - face_start) \div 3
                 c == (k - 1 - face_start) % 3
             IN  At(s, face_start + c * 3 + (2 - r))
        ELSE s[k]]

_move_U(s) ==
  LET s0   == _rotate_face_clockwise(s, 4)
      temp == Get(s0, <<0, 1, 2>>)
      s1   == Copy(s0, <<0, 1, 2>>, <<27, 28, 29>>)
      s2   == Copy(s1, <<27, 28, 29>>, <<18, 19, 20>>)
      s3   == Copy(s2, <<18, 19, 20>>, <<9, 10, 11>>)
  IN  Put(s3, <<9, 10, 11>>, temp)

_move_U_prime(s) ==
  LET s0   == _rotate_face_counterclockwise(s, 4)
      temp == Get(s0, <<0, 1, 2>>)
      s1   == Copy(s0, <<0, 1, 2>>, <<9, 10, 11>>)
      s2   == Copy(s1, <<9, 10, 11>>, <<18, 19, 20>>)
      s3   == Copy(s2, <<18, 19, 20>>, <<27, 28, 29>>)
  IN  Put(s3, <<27, 28, 29>>, temp)

_move_D(s) ==
  LET s0   == _rotate_face_clockwise(s, 5)
      temp == Get(s0, <<6, 7, 8>>)
      s1   == Copy(s0, <<6, 7, 8>>, <<15, 16, 17>>)
      s2   == Copy(s1, <<15, 16, 17>>, <<24, 25, 26>>)
      s3   == Copy(s2, <<24, 25, 26>>, <<33, 34, 35>>)
  IN  Put(s3, <<33, 34, 35>>, temp)

_move_D_prime(s) ==
  LET s0   == _rotate_face_counterclockwise(s, 5)
      temp == Get(s0, <<6, 7, 8>>)
      s1   == Copy(s0, <<6, 7, 8>>, <<33, 34, 35>>)
      s2   == Copy(s1, <<33, 34, 35>>, <<24, 25, 26>>)
      s3   == Copy(s2, <<24, 25, 26>>, <<15, 16, 17>>)
  IN  Put(s3, <<15, 16, 17>>, temp)

_move_L(s) ==
  LET s0   == _rotate_face_clockwise(s, 3)
      temp == Get(s0, <<0, 3, 6>>)
      s1   == Copy(s0, <<0, 3, 6>>, <<45, 48, 51>>)
      s2   == Copy(s1, <<45, 48, 51>>, <<24, 21, 18>>)
      s3   == Copy(s2, <<24, 21, 18>>, <<36, 39, 42>>)
  IN  Put(s3, <<36, 39, 42>>, temp)

_move_L_prime(s) ==
  LET s0   == _rotate_face_counterclockwise(s, 3)
      temp == Get(s0, <<0, 3, 6>>)
      s1   == Copy(s0, <<0, 3, 6>>, <<36, 39, 42>>)
      s2   == Copy(s1, <<36, 39, 42>>, <<24, 21, 18>>)
      s3   == Copy(s2, <<24, 21, 18>>, <<45, 48, 51>>)
  IN  Put(s3, <<45, 48, 51>>, temp)

\* a faulty R: the turn of the Down face
_move_R_as_D(s) == _move_D(s)

_move_R(s) ==
  LET s0   == _rotate_face_clockwise(s, 1)
      temp == Get(s0, <<2, 5, 8>>)
      s1   == Copy(s0, <<2, 5, 8>>, <<38, 41, 44>>)
      s2   == Copy(s1, <<38, 41, 44>>, <<20, 23, 26>>)
      s3   == Copy(s2, <<20, 23, 26>>, <<47, 50, 53>>)
  IN  Put(s3, <<47, 50, 53>>, temp)

_move_R_prime(s) ==
  LET s0   == _rotate_face_counterclockwise(s, 1)
      temp == Get(s0, <<2, 5, 8>>)
      s1   == Copy(s0, <<2, 5, 8>>, <<47, 50, 53>>)
      s2   == Copy(s1, <<47, 50, 53>>, <<20, 23, 26>>)
      s3   == Copy(s2, <<20, 23, 26>>, <<38, 41, 44>>)
  IN  Put(s3, <<38, 41, 44>>, temp)

_move_F(s) ==
  LET s0   == _rotate_face_clockwise(s, 0)
      temp == Get(s0, <<42, 43, 44>>)
      s1   == Copy(s0, <<42, 43, 44>>, <<35, 32, 29>>)
      s2   == Copy(s1, <<35, 32, 29>>, <<47, 46, 45>>)
      s3   == Copy(s2, <<47, 46, 45>>, <<9, 12, 15>>)
  IN  Put(s3, <<9, 12, 15>>, <<temp[3], temp[2], temp[1]>>)

_move_F_prime(s) ==
  LET s0   == _rotate_face_counterclockwise(s, 0)
      temp == Get(s0, <<42, 43, 44>>)
      s1   == Copy(s0, <<42, 43, 44>>, <<9, 12, 15>>)
      s2   == Copy(s1, <<9, 12, 15>>, <<47, 46, 45>>)
      s3   == Copy(s2, <<47, 46, 45>>, <<35, 32, 29>>)
  IN  Put(s3, <<35, 32, 29>>, <<temp[3], temp[2], temp[1]>>)

_move_B(s) ==
  LET s0   == _rotate_face_clockwise(s, 2)
      temp == Get(s0, <<0, 1, 2>>)
      s1   == Copy(s0, <<0, 1, 2>>, <<9, 10, 11>>)
      s2   == Copy(s1, <<9, 10, 11>>, <<53, 52, 51>>)
      s3   == Copy(s2, <<53, 52, 51>>, <<35, 34, 33>>)
  IN  Put(s3, <<35, 34, 33>>, temp)

_move_B_prime(s) ==
  LET s0   == _rotate_face_counterclockwise(s, 2)
      temp == Get(s0, <<0, 1, 2>>)
      s1   == Copy(s0, <<0, 1, 2>>, <<35, 34, 33>>)
      s2   == Copy(s1, <<35, 34, 33>>, <<53, 52, 51>>)
      s3   == Copy(s2, <<53, 52, 51>>, <<9, 10, 11>>)
  IN  Put(s3, <<9, 10, 11>>, temp)

_move_U2(s) == _move_U(_move_U(s))
_move_D2(s) == _move_D(_move_D(s))
_move_L2(s) == _move_L(_move_L(s))
_move_R2(s) == _move_R(_move_R(s))
\* a faulty half turn: one quarter turn only
_move_F2_once(s) == _move_F(s)

_move_F2(s) == _move_F(_move_F(s))
_move_B2(s) == _move_B(_move_B(s))

\* MoveEngine.moves: the dispatch table, move symbol -> in-place transformation
MoveEngine_moves(move, s) ==
  CASE move = "U"  -> _move_U(s)
    [] move = "U'" -> _move_U_prime(s)
    [] move = "U2" -> _move_U2(s)
    [] move = "D"  -> _move_D(s)
    [] move = "D'" -> _move_D_prime(s)
    [] move = "D2" -> _move_D2(s)
    [] move = "L"  -> _move_L(s)
    [] move = "L'" -> _move_L_prime(s)
    [] move = "L2" -> _move_L2(s)
    [] move = "R"  -> _move_R(s)
    [] move = "R'" -> _move_R_prime(s)
    [] move = "R2" -> _move_R2(s)
    [] move = "F"  -> _move_F(s)
    [] move = "F'" -> _move_F_prime(s)
    [] move = "F2" -> _move_F2(s)
    [] move = "B"  -> _move_B(s)
    [] move = "B'" -> _move_B_prime(s)
    [] move = "B2" -> _move_B2(s)

\* The transformations only copy array entries from position to position, never
\* look at a label: running one on the array 0, 1, .., 53 records, for every
\* position, the position its new content comes from.  Tabulated once per move.
MoveSource ==
  [move \in MoveSet |-> AsArray(MoveEngine_moves(move, [k \in 1..54 |-> k - 1]))] @@ << >>

\* MoveEngine.apply_move: the move's transformation applied to a copy of state
apply_move(s, move) ==
  The({ AsArray([k \in 1..54 |-> At(t, src[k])]) : t \in {s}, src \in {MoveSource[move]} })

(***************************************************************************)
(* RubikCube (src/src/core/cube.py)                                        *)
(***************************************************************************)
\* RubikCube._create_solved_state: state[face * 9 + square] = face
_create_solved_state == AsArray([k \in 1..54 |-> (k - 1) \div 9])

\* RubikCube.is_solved (np.array_equal with the solved state)
is_solved(s) == s = _create_solved_state

\* execute_sequence on a bare state: execute_move for each move, in order
RECURSIVE execute_sequence(_, _)
execute_sequence(s, moves) ==
  IF moves = << >> THEN s
  ELSE execute_sequence(apply_move(s, Head(moves)), Tail(moves))

\* RubikCube._is_reverse_move: move1 is the reverse of move2 (reverse_map)
reverse_map(m) ==
  CASE m = "U" -> "U'" [] m = "U'" -> "U" [] m = "U2" -> "U2"
    [] m = "D" -> "D'" [] m = "D'" -> "D" [] m = "D2" -> "D2"
    [] m = "L" -> "L'" [] m = "L'" -> "L" [] m = "L2" -> "L2"
    [] m = "R" -> "R'" [] m = "R'" -> "R" [] m = "R2" -> "R2"
    [] m = "F" -> "F'" [] m = "F'" -> "F" [] m = "F2" -> "F2"
    [] m = "B" -> "B'" [] m = "B'" -> "B" [] m = "B2" -> "B2"

\* a faulty test: no move is taken for the reverse of another
_is_reverse_move_never(move1, move2) == FALSE

_is_reverse_move(move1, move2) == move2 # "None" /\ move1 = reverse_map(move2)

(***************************************************************************)
(* The cube object: state, move_history, move_count.  start is the array   *)
(* the object was constructed with (RubikCube() or RubikCube(array)).      *)
(***************************************************************************)
\* Explicit 54-label arrays handed to RubikCube(state): the three base-6
\* digits of the index, so that together they tell any two positions apart.
ProbeStates ==
  { AsArray([k \in 1..54 |-> (k - 1) % 6]),
    AsArray([k \in 1..54 |-> ((k - 1) \div 6) % 6]),
    AsArray([k \in 1..54 |-> (k - 1) \div 36]) }

\* all sequences over a set of moves with exactly / at most n entries
RECURSIVE SeqsOfLen(_, _)
SeqsOfLen(S, n) ==
  IF n = 0 THEN { << >> }
  ELSE { Append(p, m) : p \in SeqsOfLen(S, n - 1), m \in S }

\* the move lists of each length 0..MaxMoves, tabulated once
MoveLists == [n \in 0..MaxMoves |-> SeqsOfLen(MoveSet, n)]

\* RubikCube.__init__ : RubikCube() or RubikCube(array)
\* no second cube object
NoCube ==
  [made |-> FALSE, state |-> << >>, move_history |-> << >>, move_count |-> 0,
   start |-> << >>]

\* the second object after a change in place of the first one's move_history
\* list to h: it shows in the second when both refer to the one list
Aliased(o, sh, h) ==
  IF "move_history" \in sh THEN [o EXCEPT !.move_history = h] ELSE o

\* arguments of execute_move that are not strings: the integer 1, and None
NotStrings == { "<int 1>", "<None>" }

\* isinstance(move, str)
isinstance_str(move) == move \notin NotStrings

CubeInit ==
  /\ start \in {_create_solved_state} \cup ProbeStates
  /\ state = start
  /\ move_history = << >>
  /\ move_count = 0
  /\ raised = "none"
  /\ other = NoCube
  /\ shared = {}

\* a faulty execute_move: the move is recorded before it is looked at
ExecuteMove_unvalidated(move) ==
  /\ pc = "idle"
  /\ move_history' = Append(move_history, move)
  /\ move_count' = move_count + 1
  /\ IF ~ isinstance_str(move) \/ ~ is_valid_move(move)
     THEN /\ raised' = "ValueError"
          /\ UNCHANGED <<state, shared>>
     ELSE /\ raised' = "none"
          /\ state' = apply_move(state, move)
          /\ shared' = shared \ {"state"}
  /\ other' = Aliased(other, shared, move_history')
  /\ UNCHANGED <<start, solver_vars, path, solutions, call_vars, search_vars, opt_vars, rng_vars, scrambles>>

\* RubikCube.execute_move: ValueError for an argument that is not a string or
\* not a move, before anything is changed; else the move is applied (the new
\* array replaces self.state), appended to move_history, and counted
ExecuteMove(move) ==
  /\ pc = "idle"
  /\ IF ~ isinstance_str(move) \/ ~ is_valid_move(move)
     THEN /\ raised' = "ValueError"
          /\ UNCHANGED <<state, move_history, move_count, copy_vars>>
     ELSE /\ raised' = "none"
          /\ state' = apply_move(state, move)
          /\ move_history' = Append(move_history, move)
          /\ move_count' = move_count + 1
          /\ other' = Aliased(other, shared, move_history')
          /\ shared' = shared \ {"state"}
  /\ UNCHANGED <<start, solver_vars, path, solutions, call_vars, search_vars, opt_vars, rng_vars, scrambles>>

\* RubikCube.execute_sequence: execute_move for each move of the list
ExecuteSequence(moves) ==
  /\ pc = "idle"
  /\ state' = execute_sequence(state, moves)
  /\ move_history' = move_history \o moves
  /\ move_count' = move_count + Len(moves)
  /\ raised' = "none"
  /\ other' = Aliased(other, shared, move_history')
  /\ shared' = IF moves = << >> THEN shared ELSE shared \ {"state"}
  /\ UNCHANGED <<start, solver_vars, path, solutions, call_vars, search_vars, opt_vars, rng_vars, scrambles>>

\* RubikCube(): another cube object, freshly constructed, takes the place of
\* the one at hand; numpy's generator is global and is left as it is
NewCube ==
  /\ pc = "idle"
  /\ start' = _create_solved_state
  /\ state' = _create_solved_state
  /\ move_history' = << >>
  /\ move_count' = 0
  /\ raised' = "none"
  /\ shared' = {}
  /\ UNCHANGED <<other, solver_vars, path, solutions, call_vars, search_vars, opt_vars, rng_vars, scrambles>>

\* a faulty reset: move_history is left as it is
Reset_state_only ==
  /\ pc = "idle"
  /\ state' = _create_solved_state
  /\ raised' = "none"
  /\ shared' = shared \ {"state"}
  /\ UNCHANGED <<move_history, move_count, start, other, solver_vars, path, solutions, call_vars,
                 search_vars, opt_vars, rng_vars, scrambles>>

\* RubikCube.reset: a new solved array replaces self.state and the list
\* move_history is emptied in place; move_count is not touched
Reset ==
  /\ pc = "idle"
  /\ state' = _create_solved_state
  /\ move_history' = << >>
  /\ raised' = "none"
  /\ other' = Aliased(other, shared, move_history')
  /\ shared' = shared \ {"state"}
  /\ UNCHANGED <<move_count, start, solver_vars, path, solutions, call_vars, search_vars, opt_vars,
                 rng_vars, scrambles>>

\* RubikCube.get_move_count
get_move_count == Len(move_history)

\* a faulty copy: the new object refers to the array and to the list of the
\* original
copy_shallow ==
  /\ pc = "idle"
  /\ other' = [made |-> TRUE, state |-> state, move_history |-> move_history,
               move_count |-> 0, start |-> state]
  /\ shared' = {"state", "move_history"}
  /\ raised' = "none"
  /\ UNCHANGED <<state, move_history, move_count, start, solver_vars, path, solutions, call_vars,
                 search_vars, opt_vars, rng_vars, scrambles>>

\* c = cube.copy(): RubikCube(self.state) copies the array, then the new
\* object gets a copy of the list move_history; its move_count stays 0
copy ==
  /\ pc = "idle"
  /\ other' = [made |-> TRUE, state |-> AsArray(state), move_history |-> move_history,
               move_count |-> 0, start |-> AsArray(state)]
  /\ shared' = {}
  /\ raised' = "none"
  /\ UNCHANGED <<state, move_history, move_count, start, solver_vars, path, solutions, call_vars,
                 search_vars, opt_vars, rng_vars, scrambles>>

\* the caller turns to the second object: from here on the methods are called
\* on it, and the first one is the other
Swap ==
  /\ pc = "idle"
  /\ other.made
  /\ state' = other.state
  /\ move_history' = other.move_history
  /\ move_count' = other.move_count
  /\ start' = other.start
  /\ other' = [made |-> TRUE, state |-> state, move_history |-> move_history,
               move_count |-> move_count, start |-> start]
  /\ UNCHANGED <<raised, shared, solver_vars, path, solutions, call_vars, search_vars, opt_vars,
                 rng_vars, scrambles>>

\* str(n) of a label, as the sequence of its characters
RECURSIVE str(_)
str(n) ==
  IF n < 10
  THEN << CASE n = 0 -> "0" [] n = 1 -> "1" [] n = 2 -> "2" [] n = 3 -> "3"
            [] n = 4 -> "4" [] n = 5 -> "5" [] n = 6 -> "6" [] n = 7 -> "7"
            [] n = 8 -> "8" [] n = 9 -> "9" >>
  ELSE str(n \div 10) \o str(n % 10)

\* ''.join(map(str, labels[k..])), as the sequence of its characters
RECURSIVE join(_, _)
join(labels, k) ==
  IF k > Len(labels) THEN << >> ELSE str(labels[k]) \o join(labels, k + 1)

\* a faulty get_state_string: the labels of the first face only
get_state_string_first_face(s) == The({ join(labels, 1) : labels \in { SubSeq(s, 1, 9) } })

\* RubikCube.get_state_string
get_state_string(s) == The({ join(labels, 1) : labels \in {s} })

\* ord(c) of a digit character
ord(c) ==
  CASE c = "0" -> 48 [] c = "1" -> 49 [] c = "2" -> 50 [] c = "3" -> 51
    [] c = "4" -> 52 [] c = "5" -> 53 [] c = "6" -> 54 [] c = "7" -> 55
    [] c = "8" -> 56 [] c = "9" -> 57

\* hash(string): a number computed from the characters of the string alone.
\* CPython computes a keyed hash whose key is fixed for the life of the
\* process; the polynomial in the character codes below, kept to 12 bits,
\* stands for it.  hash_range gives it for chars[lo..hi] together with the
\* power of 31 of that length (in halves, to keep the evaluation shallow).
RECURSIVE hash_range(_, _, _)
hash_range(chars, lo, hi) ==
  IF lo > hi THEN [h |-> 0, p |-> 1]
  ELSE IF lo = hi THEN [h |-> ord(chars[lo]), p |-> 31]
  ELSE The({ [h |-> (l.h * r.p + r.h) % 4096, p |-> (l.p * r.p) % 4096]
             : l \in { hash_range(chars, lo, (lo + hi) \div 2) },
               r \in { hash_range(chars, (lo + hi) \div 2 + 1, hi) } })

hash(chars) == hash_range(chars, 1, Len(chars)).h

\* RubikCube.__hash__
__hash__(s) == The({ hash(chars) : chars \in { get_state_string(s) } })

\* RubikCube.__eq__: np.array_equal of the two arrays
__eq__(a, b) ==
  /\ Len(a) = Len(b)
  /\ \A k \in 1..Len(a) : a[k] = b[k]

(***************************************************************************)
(* np.random as RubikCube.scramble uses it.  np.random.seed(seed) puts the *)
(* global generator at the start of the stream of that seed; without a     *)
(* call of seed the generator is on the stream it was started on (NoSeed). *)
(* A stream is a fixed sequence of draws; what it holds is not known       *)
(* before it is drawn, so draws records per stream what has been drawn,    *)
(* and a draw at a position not drawn before can be any value.             *)
(***************************************************************************)
\* seed: Optional[int] = None; np.random.seed takes no negative number
NoSeed == -1
\* the seeds scramble is called with (test_cube.py uses 42)
Seeds == {42}
\* what one draw can be; np.random.choice(valid_moves) turns it into one of
\* the len(valid_moves) <= 18 positions of the list, each of them possible
RawDraws == 0..17

RawLists == [n \in 0..MaxMoves |-> SeqsOfLen(RawDraws, n)]

\* the generator as the interpreter starts it, no call of scramble yet
RandomInit ==
  /\ np_random = [id |-> NoSeed, pos |-> 0]
  /\ draws = [id \in Seeds \cup {NoSeed} |-> << >>]
  /\ scrambles = << >>

\* the for loop of scramble from its k-th pass on, raws being the draws the
\* generator gives to the call: valid_moves leaves out the reverse of
\* last_move, np.random.choice takes one of them
RECURSIVE scramble_moves(_, _, _, _)
scramble_moves(raws, k, last_move, out) ==
  IF k > Len(raws) THEN out
  ELSE The({ The({ scramble_moves(raws, k + 1, move, Append(out, move))
                   : move \in { valid_moves[(raws[k] % Len(valid_moves)) + 1] } })
             : valid_moves \in { SelectSeq(get_all_moves,
                                   LAMBDA m : ~ _is_reverse_move(m, last_move)) } })

\* a faulty scramble: the seed is not handed to np.random.seed
Scramble_unseeded(num_moves, seed) ==
  /\ pc = "idle"
  /\ \E g \in { np_random } :
     \E unseen \in RawLists[IF g.pos + num_moves > Len(draws[g.id])
                            THEN g.pos + num_moves - Len(draws[g.id]) ELSE 0] :
     \E stream \in { draws[g.id] \o unseen } :
     \E ms \in { scramble_moves(SubSeq(stream, g.pos + 1, g.pos + num_moves),
                                1, "None", << >>) } :
       /\ draws' = [draws EXCEPT ![g.id] = stream]
       /\ np_random' = [id |-> g.id, pos |-> g.pos + num_moves]
       /\ state' = execute_sequence(state, ms)
       /\ move_history' = move_history \o ms
       /\ move_count' = move_count + Len(ms)
       /\ scrambles' = Append(scrambles,
            [num_moves |-> num_moves, seed |-> seed, returned |-> ms,
             before |-> [state |-> state, move_history |-> move_history],
             after  |-> [state |-> state', move_history |-> move_history']])
       /\ other' = Aliased(other, shared, move_history')
       /\ shared' = IF ms = << >> THEN shared ELSE shared \ {"state"}
  /\ raised' = "none"
  /\ UNCHANGED <<start, solver_vars, path, solutions, call_vars, search_vars, opt_vars>>

\* RubikCube.scramble(num_moves, seed).  Each record of scrambles holds the
\* arguments of the call, the returned list and the cube before and after.
Scramble(num_moves, seed) ==
  /\ pc = "idle"
  /\ \E g \in { IF seed # NoSeed THEN [id |-> seed, pos |-> 0] ELSE np_random } :
     \E unseen \in RawLists[IF g.pos + num_moves > Len(draws[g.id])
                            THEN g.pos + num_moves - Len(draws[g.id]) ELSE 0] :
     \E stream \in { draws[g.id] \o unseen } :
     \E ms \in { scramble_moves(SubSeq(stream, g.pos + 1, g.pos + num_moves),
                                1, "None", << >>) } :
       /\ draws' = [draws EXCEPT ![g.id] = stream]
       /\ np_random' = [id |-> g.id, pos |-> g.pos + num_moves]
       /\ state' = execute_sequence(state, ms)
       /\ move_history' = move_history \o ms
       /\ move_count' = move_count + Len(ms)
       /\ scrambles' = Append(scrambles,
            [num_moves |-> num_moves, seed |-> seed, returned |-> ms,
             before |-> [state |-> state, move_history |-> move_history],
             after  |-> [state |-> state', move_history |-> move_history']])
       /\ other' = Aliased(other, shared, move_history')
       /\ shared' = IF ms = << >> THEN shared ELSE shared \ {"state"}
  /\ raised' = "none"
  /\ UNCHANGED <<start, solver_vars, path, solutions, call_vars, search_vars, opt_vars>>

(***************************************************************************)
(* AStarSolver (src/src/algorithms/astar_solver.py)                        *)
(***************************************************************************)
\* SearchStatistics as constructed (src/src/algorithms/utils.py)
SearchStatistics ==
  [ nodes_explored |-> 0, solution_found |-> FALSE, solution_length |-> 0,
    solve_time |-> 0, max_depth_reached |-> 0 ]

\* configurations the solver is constructed with: AStarSolver(max_depth = ..)
MaxDepthChoices == {1, 25}

\* a faulty list of recognised heuristic names: the unknown name is in it
valid_heuristics_with_other ==
  {"manhattan", "corner_edge", "combined", "invalid_heuristic"}

\* heuristic names handed to solve: the three recognised ones and another
valid_heuristics == {"manhattan", "corner_edge", "combined"}
HeuristicNames == valid_heuristics \cup {"invalid_heuristic"}

\* a function over 1..n evaluated into a stored tuple (the identity on tuples)
AsTuple(f, n) == SubSeq(f, 1, n)

\* AStarSolver.__init__ (max_depth is set by the specification's Init), no call yet
SolverInit ==
  /\ timeout = 60
  /\ statistics = SearchStatistics
  /\ pc = "idle"
  /\ input = [state |-> << >>, move_history |-> << >>,
              heuristic_type |-> "", statistics |-> SearchStatistics]
  /\ returned = "nothing"
  /\ result = << >>
  /\ strategies = << >>
  /\ expanded = 0
  /\ queue = << >> /\ visited = {} /\ depth = 0
  /\ dequeued = {} /\ unseen_skips = 0
  /\ length = 0
  /\ working_cube = << >> /\ solution = << >> /\ iteration = 0
  /\ path = << >>
  /\ solutions = << >>

\* AStarSolver._are_opposite
_are_opposite(move1, move2) ==
  LET pairs == { <<"U", "U'">>, <<"R", "R'">>, <<"F", "F'">>,
                 <<"L", "L'">>, <<"D", "D'">>, <<"B", "B'">> }
  IN  <<move1, move2>> \in pairs \/ <<move2, move1>> \in pairs

\* AStarSolver._quick_hash: hash(tuple(state[:24])), the hash taken as injective
_quick_hash(s) == SubSeq(s, 1, 24)

\* AStarSolver._states_equal
_states_equal(s1, s2) == s1 = s2

\* move[0], move.endswith("'"), move.endswith('2')
face(move) ==
  CASE move \in {"U", "U'", "U2"} -> "U"
    [] move \in {"D", "D'", "D2"} -> "D"
    [] move \in {"L", "L'", "L2"} -> "L"
    [] move \in {"R", "R'", "R2"} -> "R"
    [] move \in {"F", "F'", "F2"} -> "F"
    [] move \in {"B", "B'", "B2"} -> "B"

EndsWithPrime(move) == move \in {"U'", "D'", "L'", "R'", "F'", "B'"}
EndsWith2(move) == move \in {"U2", "D2", "L2", "R2", "F2", "B2"}

\* a faulty inversion: the moves in reverse order, each one left as it is
_invert_sequence_reversed(moves) ==
  AsTuple([k \in 1..Len(moves) |-> moves[Len(moves) + 1 - k]], Len(moves))

\* AStarSolver._invert_sequence
_invert_sequence(moves) ==
  AsTuple([k \in 1..Len(moves) |->
            LET move == moves[Len(moves) + 1 - k]
            IN  IF EndsWithPrime(move) THEN face(move)
                ELSE IF EndsWith2(move) THEN move
                ELSE move \o "'"], Len(moves))

\* AStarSolver._count_correct_pieces
_count_correct_pieces(s) ==
  The({ Cardinality({ k \in 1..54 : t[k] = _create_solved_state[k] }) : t \in {s} })

(***************************************************************************)
(* _fast_bfs                                                               *)
(***************************************************************************)
\* range(6): the number of levels
BfsLevels == 6

\* a faulty list: all 18 moves
BfsMoves_all == get_all_moves

BfsMoves == << "U", "U'", "R", "R'", "F", "F'" >>

\* the children of one dequeued node, in the order of the for-move loop: a
\* move is left out when it is the opposite of the last move of the path
Children(node) ==
  The({ The({ AsTuple([k \in 1..Len(ms) |->
                         [cube |-> apply_move(n.cube, ms[k]),
                          path |-> Append(n.path, ms[k])]],
                      Len(ms))
              : ms \in { SelectSeq(BfsMoves,
                           LAMBDA m : n.path = << >>
                                        \/ ~ _are_opposite(m, n.path[Len(n.path)])) } })
        : n \in {node} })

\* the for-move loop over these children: the path of the first solved one is
\* returned, or else all of them are appended to the queue
Scan(kids) ==
  The({ The({ IF hit # {}
              THEN [found |-> TRUE, kids |-> << >>,
                    path |-> ks[CHOOSE k \in hit : \A j \in hit : k <= j].path]
              ELSE [found |-> FALSE, kids |-> ks, path |-> << >>]
              : hit \in { { k \in 1..Len(ks) : is_solved(ks[k].cube) } } })
        : ks \in {kids} })

Expand(node) == Scan(Children(node))

\* what one dequeued node leaves behind: e from its for-move loop, seen the
\* visited set
Dequeued(e, seen) ==
  The({ [found |-> x.found, path |-> x.path, out |-> x.kids, seen |-> v]
        : x \in {e}, v \in {seen} })

\* two consecutive parts of a level, the second not run when the first returned
Joined(l, r) ==
  The({ IF a.found THEN a
        ELSE The({ [found |-> b.found, path |-> b.path,
                    out |-> a.out \o b.out, seen |-> b.seen] : b \in {r} })
        : a \in {l} })

\* queue entries lo..hi of one level dequeued in order (split in halves only to
\* keep the evaluation shallow): skipped when their hash is in seen, else added
\* to seen and expanded
RECURSIVE BfsRange(_, _, _, _)
RECURSIVE BfsRest(_, _, _, _)
BfsRange(q, lo, hi, seen) ==
  IF lo > hi
  THEN Dequeued([found |-> FALSE, path |-> << >>, kids |-> << >>], seen)
  ELSE IF lo = hi
  THEN The({ IF h \in seen
             THEN Dequeued([found |-> FALSE, path |-> << >>, kids |-> << >>], seen)
             ELSE Dequeued(Expand(q[lo]), seen \cup {h})
             : h \in { _quick_hash(q[lo].cube) } })
  ELSE The({ The({ BfsRest(q, mid, hi, l) : l \in { BfsRange(q, lo, mid, seen) } })
             : mid \in { (lo + hi) \div 2 } })

BfsRest(q, mid, hi, l) ==
  IF l.found THEN l ELSE Joined(l, BfsRange(q, mid + 1, hi, l.seen))

\* the full states of the nodes of one level
CubesOf(q) == { q[k].cube : k \in 1..Len(q) }

\* the full states of the nodes of level q that were expanded: the nodes whose
\* path is the path of one of the children out without its last move
ExpandedOf(q, out) ==
  The({ { q[k].cube : k \in { j \in 1..Len(q) : q[j].path \in parents } }
        : parents \in { { SubSeq(out[k].path, 1, Len(out[k].path) - 1)
                          : k \in 1..Len(out) } } })

(***************************************************************************)
(* _reverse_solve                                                          *)
(***************************************************************************)
test_moves ==
  << "U", "U'", "U2", "R", "R'", "R2", "F", "F'", "F2",
     "L", "L'", "L2", "D", "D'", "D2", "B", "B'", "B2" >>

\* range(1, 9): the last length enumerated
ReverseMaxLength == 8

\* no sequence (every enumerated sequence has at least one move)
NoMatch == << >>

\* product(test_moves, repeat = ..) in its order, from the sequences that start
\* with prefix (which takes solved to cube) and go on with one of
\* test_moves[k..18] and n moves in all: the first one without an adjacent
\* opposite pair whose execution on a solved cube gives target
RECURSIVE FirstFrom(_, _, _, _, _)
RECURSIVE FirstWith(_, _, _, _)
RECURSIVE FirstOr(_, _, _, _, _, _)
FirstFrom(cube, prefix, n, k, target) ==
  IF k > Len(test_moves) THEN NoMatch
  ELSE IF prefix # << >> /\ _are_opposite(prefix[Len(prefix)], test_moves[k])
  THEN FirstFrom(cube, prefix, n, k + 1, target)
  ELSE The({ FirstOr(here, cube, prefix, n, k, target)
             : here \in { The({ FirstWith(next, Append(prefix, test_moves[k]), n, target)
                                : next \in { apply_move(cube, test_moves[k]) } }) } })

\* the same for the sequences that start with seq (which takes solved to next)
FirstWith(next, seq, n, target) ==
  IF n = 1
  THEN (IF _states_equal(next, target) THEN seq ELSE NoMatch)
  ELSE FirstFrom(next, seq, n - 1, 1, target)

FirstOr(here, cube, prefix, n, k, target) ==
  IF here # NoMatch THEN here ELSE FirstFrom(cube, prefix, n, k + 1, target)

LabelCounts(s) ==
  The({ [c \in 0..5 |-> Cardinality({ k \in 1..54 : t[k] = c })] : t \in {s} })

\* every tabulated move moves each position's content to exactly one position
MovesArePermutations ==
  \A move \in MoveSet : { MoveSource[move][k] : k \in 1..54 } = Idx

\* One pass of the for-length loop: the first sequence of n moves matching
\* target.  When every move is a permutation a target whose label counts are
\* not those of the solved cube is matched by no sequence, and the
\* enumeration is not run.
FirstMatch(n, target) ==
  IF MovesArePermutations /\ LabelCounts(target) # LabelCounts(_create_solved_state)
  THEN NoMatch
  ELSE FirstFrom(_create_solved_state, << >>, n, 1, target)

(***************************************************************************)
(* _brute_force_solve                                                      *)
(***************************************************************************)
patterns ==
  << <<"U">>, <<"U'">>, <<"R">>, <<"R'">>, <<"F">>, <<"F'">>,
     <<"L">>, <<"L'">>, <<"D">>, <<"D'">>, <<"B">>, <<"B'">>,
     <<"R", "U", "R'", "U'">>,
     <<"U", "R", "U'", "R'">>,
     <<"F", "R", "U", "R'", "U'", "F'">>,
     <<"R", "U", "R'", "F", "R", "F'">>,
     <<"U", "R", "U'", "R'", "U'", "F", "R", "F'">>,
     <<"R", "U2", "R'", "U'", "R", "U'", "R'">>,
     <<"R", "U", "R'", "U", "R", "U2", "R'">>,
     <<"F", "U", "R", "U'", "R'", "F'">>,
     <<"R", "U", "R'">>, <<"F", "U", "F'">>, <<"R", "F", "R'">> >>

\* range(50): the number of iterations
MaxIterations == 50
\* len(solution) > 100 leaves the loop
MaxSolutionLength == 100

\* a faulty loop: among the patterns with the largest score the last one
Choice_last_best(scores, done, best_score) ==
  The({ The({ [ solved |-> IF d = {} THEN 0 ELSE CHOOSE k \in d : \A j \in d : k <= j,
                best   |-> IF sc[last] > b THEN last ELSE 0 ]
              : last \in { CHOOSE k \in 1..Len(sc) :
                             /\ \A j \in 1..Len(sc) : sc[j] <= sc[k]
                             /\ \A j \in (k + 1)..Len(sc) : sc[j] < sc[k] } })
        : sc \in {scores}, d \in {done}, b \in {best_score} })

\* the for-pattern loop of one iteration, from the scores of the 23 test
\* cubes, the test cubes that are solved and the score of the working cube:
\*   solved - index of the first pattern whose test cube is solved (0: none)
\*   best   - best_pattern as an index (0: None): the first pattern whose score
\*            is the largest, when that is more than the score of the working cube
Choice(scores, done, best_score) ==
  The({ The({ [ solved |-> IF d = {} THEN 0 ELSE CHOOSE k \in d : \A j \in d : k <= j,
                best   |-> IF sc[first] > b THEN first ELSE 0 ]
              : first \in { CHOOSE k \in 1..Len(sc) :
                              /\ \A j \in 1..Len(sc) : sc[j] <= sc[k]
                              /\ \A j \in 1..(k - 1) : sc[j] < sc[k] } })
        : sc \in {scores}, d \in {done}, b \in {best_score} })

Rated(tests, w) ==
  The({ Choice(AsTuple([k \in 1..Len(ts) |-> _count_correct_pieces(ts[k])], Len(ts)),
               { k \in 1..Len(ts) : is_solved(ts[k]) },
               _count_correct_pieces(w))
        : ts \in {tests} })

TryPatterns(w) ==
  The({ Rated(AsTuple([k \in 1..Len(patterns) |-> execute_sequence(c, patterns[k])],
                      Len(patterns)), c)
        : c \in {w} })

\* a faulty solve: under the name "combined" no strategy is tried
Solve_by_heuristic(heuristic_type) ==
  /\ pc = "idle"
  /\ input' = [state |-> state, move_history |-> move_history,
               heuristic_type |-> heuristic_type, statistics |-> statistics]
  /\ IF heuristic_type \notin valid_heuristics
     THEN /\ pc' = "done"
          /\ returned' = "ValueError"
          /\ UNCHANGED <<result, strategies, expanded, search_vars>>
     ELSE IF is_solved(state)
     THEN /\ pc' = "done"
          /\ returned' = "list"
          /\ result' = << >>
          /\ UNCHANGED <<strategies, expanded, search_vars>>
     ELSE IF heuristic_type = "combined"
     THEN /\ pc' = "done"
          /\ returned' = "None"
          /\ UNCHANGED <<result, strategies, expanded, search_vars>>
     ELSE /\ pc' = "fast_bfs"
          /\ strategies' = Append(strategies, "_fast_bfs")
          /\ queue' = << [cube |-> state, path |-> << >>] >>
          /\ visited' = {}
          /\ depth' = 0
          /\ dequeued' = {} /\ unseen_skips' = 0
          /\ UNCHANGED <<returned, result, expanded, rev_vars, brute_vars>>
  /\ UNCHANGED <<cube_vars, solver_vars, path, solutions, opt_vars, rng_vars, scrambles, copy_vars>>

\* a faulty solve: no test for an already solved cube before _fast_bfs
Solve_unchecked(heuristic_type) ==
  /\ pc = "idle"
  /\ input' = [state |-> state, move_history |-> move_history,
               heuristic_type |-> heuristic_type, statistics |-> statistics]
  /\ IF heuristic_type \notin valid_heuristics
     THEN /\ pc' = "done"
          /\ returned' = "ValueError"
          /\ UNCHANGED <<result, strategies, expanded, search_vars>>
     ELSE /\ pc' = "fast_bfs"
          /\ strategies' = Append(strategies, "_fast_bfs")
          /\ queue' = << [cube |-> state, path |-> << >>] >>
          /\ visited' = {}
          /\ depth' = 0
          /\ dequeued' = {} /\ unseen_skips' = 0
          /\ UNCHANGED <<returned, result, expanded, rev_vars, brute_vars>>
  /\ UNCHANGED <<cube_vars, solver_vars, path, solutions, opt_vars, rng_vars, scrambles, copy_vars>>

\* solve up to the start of _fast_bfs
Solve(heuristic_type) ==
  /\ pc = "idle"
  /\ input' = [state |-> state, move_history |-> move_history,
               heuristic_type |-> heuristic_type, statistics |-> statistics]
  /\ IF heuristic_type \notin valid_heuristics
     THEN /\ pc' = "done"
          /\ returned' = "ValueError"
          /\ UNCHANGED <<result, strategies, expanded, search_vars>>
     ELSE IF is_solved(state)
     THEN /\ pc' = "done"
          /\ returned' = "list"
          /\ result' = << >>
          /\ UNCHANGED <<strategies, expanded, search_vars>>
     ELSE /\ pc' = "fast_bfs"
          /\ strategies' = Append(strategies, "_fast_bfs")
          /\ queue' = << [cube |-> state, path |-> << >>] >>
          /\ visited' = {}
          /\ depth' = 0
          /\ dequeued' = {} /\ unseen_skips' = 0
          /\ UNCHANGED <<returned, result, expanded, rev_vars, brute_vars>>
  /\ UNCHANGED <<cube_vars, solver_vars, path, solutions, opt_vars, rng_vars, scrambles, copy_vars>>

\* a faulty level: the first move of the list is executed on the cube handed
\* to solve itself, not on a copy of it
FastBfsLevel_in_place ==
  /\ pc = "fast_bfs"
  /\ state' = apply_move(state, BfsMoves[1])
  /\ move_history' = Append(move_history, BfsMoves[1])
  /\ move_count' = move_count + 1
  /\ \E r \in { BfsRange(queue, 1, Len(queue), visited) } :
       /\ expanded' = expanded + Cardinality(r.seen) - Cardinality(visited)
       /\ IF r.found
          THEN /\ pc' = "done"
               /\ returned' = "list"
               /\ result' = r.path
               /\ queue' = << >> /\ visited' = {} /\ depth' = depth
               /\ dequeued' = {} /\ UNCHANGED unseen_skips
               /\ UNCHANGED <<strategies, rev_vars>>
          ELSE IF depth + 1 < BfsLevels
          THEN /\ queue' = r.out /\ visited' = r.seen /\ depth' = depth + 1
               /\ \E cubes \in { CubesOf(queue) } :
                    /\ dequeued' = dequeued \cup cubes
                    /\ unseen_skips' = unseen_skips
                         + Cardinality(cubes \ (dequeued \cup ExpandedOf(queue, r.out)))
               /\ UNCHANGED <<pc, returned, result, strategies, rev_vars>>
          ELSE /\ pc' = "reverse_solve"
               /\ strategies' = Append(strategies, "_reverse_solve")
               /\ length' = 1
               /\ queue' = << >> /\ visited' = {} /\ depth' = depth
               /\ dequeued' = {} /\ UNCHANGED unseen_skips
               /\ UNCHANGED <<returned, result>>
  /\ UNCHANGED <<input, brute_vars, start, raised, solver_vars, path, solutions, opt_vars, rng_vars, scrambles, copy_vars>>

\* a faulty loop: a level that finds nothing leaves the queue, the visited set
\* and the level counter as they were, and is run again
FastBfsLevel_again ==
  /\ pc = "fast_bfs"
  /\ \E r \in { BfsRange(queue, 1, Len(queue), visited) } :
       IF r.found
       THEN /\ pc' = "done"
            /\ returned' = "list"
            /\ result' = r.path
            /\ expanded' = expanded + Cardinality(r.seen) - Cardinality(visited)
            /\ queue' = << >> /\ visited' = {} /\ depth' = depth
            /\ dequeued' = {} /\ UNCHANGED unseen_skips
            /\ UNCHANGED <<strategies, rev_vars>>
       ELSE UNCHANGED <<pc, returned, result, strategies, expanded, bfs_vars, rev_vars>>
  /\ UNCHANGED <<input, brute_vars, cube_vars, solver_vars, path, solutions, opt_vars, rng_vars, scrambles, copy_vars>>

\* one pass of "for depth in range(6)" of _fast_bfs; after the last one solve
\* goes on to _reverse_solve
FastBfsLevel ==
  /\ pc = "fast_bfs"
  /\ \E r \in { BfsRange(queue, 1, Len(queue), visited) } :
       /\ expanded' = expanded + Cardinality(r.seen) - Cardinality(visited)
       /\ IF r.found
          THEN /\ pc' = "done"
               /\ returned' = "list"
               /\ result' = r.path
               /\ queue' = << >> /\ visited' = {} /\ depth' = depth
               /\ dequeued' = {} /\ UNCHANGED unseen_skips
               /\ UNCHANGED <<strategies, rev_vars>>
          ELSE IF depth + 1 < BfsLevels
          THEN /\ queue' = r.out /\ visited' = r.seen /\ depth' = depth + 1
               /\ \E cubes \in { CubesOf(queue) } :
                    /\ dequeued' = dequeued \cup cubes
                    /\ unseen_skips' = unseen_skips
                         + Cardinality(cubes \ (dequeued \cup ExpandedOf(queue, r.out)))
               /\ UNCHANGED <<pc, returned, result, strategies, rev_vars>>
          ELSE /\ pc' = "reverse_solve"
               /\ strategies' = Append(strategies, "_reverse_solve")
               /\ length' = 1
               /\ queue' = << >> /\ visited' = {} /\ depth' = depth
               /\ dequeued' = {} /\ UNCHANGED unseen_skips
               /\ UNCHANGED <<returned, result>>
  /\ UNCHANGED <<input, brute_vars, cube_vars, solver_vars, path, solutions, opt_vars, rng_vars, scrambles, copy_vars>>

\* a faulty pipeline: solve returns None when _reverse_solve found nothing
ReverseLength_last ==
  /\ pc = "reverse_solve"
  /\ \E found \in { FirstMatch(length, state) } :
       IF found # NoMatch
       THEN /\ pc' = "done"
            /\ returned' = "list"
            /\ result' = _invert_sequence(found)
            /\ UNCHANGED <<strategies, rev_vars, brute_vars>>
       ELSE IF length < ReverseMaxLength
       THEN /\ length' = length + 1
            /\ UNCHANGED <<pc, returned, result, strategies, brute_vars>>
       ELSE /\ pc' = "done"
            /\ returned' = "None"
            /\ UNCHANGED <<result, strategies, rev_vars, brute_vars>>
  /\ expanded' = expanded + 1
  /\ UNCHANGED <<input, bfs_vars, cube_vars, solver_vars, path, solutions, opt_vars, rng_vars, scrambles, copy_vars>>

\* one pass of "for length in range(1, 9)" of _reverse_solve; after the last
\* one solve goes on to _brute_force_solve
ReverseLength ==
  /\ pc = "reverse_solve"
  /\ \E found \in { FirstMatch(length, state) } :
       IF found # NoMatch
       THEN /\ pc' = "done"
            /\ returned' = "list"
            /\ result' = _invert_sequence(found)
            /\ UNCHANGED <<strategies, rev_vars, brute_vars>>
       ELSE IF length < ReverseMaxLength
       THEN /\ length' = length + 1
            /\ UNCHANGED <<pc, returned, result, strategies, brute_vars>>
       ELSE /\ pc' = "brute_force"
            /\ strategies' = Append(strategies, "_brute_force_solve")
            /\ working_cube' = state /\ solution' = << >> /\ iteration' = 0
            /\ UNCHANGED <<returned, result, rev_vars>>
  /\ expanded' = expanded + 1
  /\ UNCHANGED <<input, bfs_vars, cube_vars, solver_vars, path, solutions, opt_vars, rng_vars, scrambles, copy_vars>>

\* _brute_force_solve(cube) called on its own, up to the start of its loop
BruteForceSolve ==
  /\ pc = "idle"
  /\ input' = [state |-> state, move_history |-> move_history,
               heuristic_type |-> "", statistics |-> statistics]
  /\ pc' = "brute_force"
  /\ strategies' = Append(strategies, "_brute_force_solve")
  /\ working_cube' = state /\ solution' = << >> /\ iteration' = 0
  /\ UNCHANGED <<returned, result, expanded, bfs_vars, rev_vars>>
  /\ UNCHANGED <<cube_vars, solver_vars, path, solutions, opt_vars, rng_vars, scrambles, copy_vars>>

\* one pass of "for iteration in range(50)" of _brute_force_solve, with the
\* return after the loop when the pass is the last one
BruteForceIteration ==
  /\ pc = "brute_force"
  /\ IF is_solved(working_cube)
     THEN /\ pc' = "done"
          /\ returned' = "list"
          /\ result' = solution
          /\ UNCHANGED brute_vars
     ELSE \E t \in { TryPatterns(working_cube) } :
       IF t.solved # 0
       THEN /\ pc' = "done"
            /\ returned' = "list"
            /\ result' = solution \o patterns[t.solved]
            /\ UNCHANGED brute_vars
       ELSE LET pattern == IF t.best # 0 THEN patterns[t.best]
                           ELSE patterns[(iteration % Len(patterns)) + 1]
            IN  /\ working_cube' = execute_sequence(working_cube, pattern)
                /\ solution' = solution \o pattern
                /\ IF Len(solution') > MaxSolutionLength \/ iteration + 1 >= MaxIterations
                   THEN /\ pc' = "done"
                        /\ iteration' = iteration
                        /\ IF is_solved(working_cube')
                           THEN returned' = "list" /\ result' = solution'
                           ELSE returned' = "None" /\ UNCHANGED result
                   ELSE /\ iteration' = iteration + 1
                        /\ UNCHANGED <<pc, returned, result>>
  /\ expanded' = expanded + 1
  /\ UNCHANGED <<input, strategies, bfs_vars, rev_vars, cube_vars, solver_vars, path, solutions, opt_vars, rng_vars, scrambles, copy_vars>>

\* the names in the order a caller goes through them
heuristics == << "manhattan", "corner_edge", "combined" >>

\* "for heuristic in heuristics": solve has returned, what it returned is kept
\* and the solver is ready for the call with the next name
NextHeuristic ==
  /\ pc = "done"
  /\ solutions' = Append(solutions, [heuristic |-> input.heuristic_type,
                                     returned |-> returned, result |-> result])
  /\ pc' = "idle"
  /\ returned' = "nothing"
  /\ result' = << >>
  /\ strategies' = << >>
  /\ expanded' = 0
  /\ queue' = << >> /\ visited' = {} /\ depth' = 0
  /\ dequeued' = {} /\ unseen_skips' = 0
  /\ length' = 0
  /\ working_cube' = << >> /\ solution' = << >> /\ iteration' = 0
  /\ UNCHANGED <<input, cube_vars, solver_vars, path, opt_vars, rng_vars, scrambles, copy_vars>>

(***************************************************************************)
(* Heuristics (src/src/algorithms/heuristics.py), on the state of the cube *)
(* they are handed.                                                        *)
(***************************************************************************)
corners ==
  << <<0, 9, 36>>, <<2, 11, 38>>, <<6, 15, 42>>, <<8, 17, 44>>,
     <<18, 27, 45>>, <<20, 29, 47>>, <<24, 33, 51>>, <<26, 35, 53>> >>

edges ==
  << <<1, 37>>, <<3, 39>>, <<5, 41>>, <<7, 43>>,
     <<10, 46>>, <<12, 48>>, <<14, 50>>, <<16, 52>>,
     <<19, 28>>, <<21, 30>>, <<23, 32>>, <<25, 34>> >>

\* [state[pos] for pos in piece] and sorted(..) of it
Colors(s, piece) == AsTuple([k \in 1..Len(piece) |-> At(s, piece[k])], Len(piece))
sorted(colors) == SortSeq(colors, LAMBDA a, b : a < b)

\* the number of facelets other than the six centers that differ from the
\* solved cube's
misplaced(s) ==
  Cardinality({ p \in Idx : p % 9 # 4 /\ At(s, p) # At(_create_solved_state, p) })

\* a faulty scaling: one unit per 20 misplaced facelets
manhattan_distance_coarse(s) == misplaced(s) \div 20

\* Heuristics.manhattan_distance
manhattan_distance(s) ==
  (IF misplaced(s) < 20 THEN misplaced(s) ELSE 20) \div 4

\* what one corner adds: 2 out of place, 1 twisted
corner_score(s, corner) ==
  IF sorted(Colors(s, corner)) # sorted(Colors(_create_solved_state, corner)) THEN 2
  ELSE IF Colors(s, corner) # Colors(_create_solved_state, corner) THEN 1
  ELSE 0

\* what one edge adds: 1 out of place, 1 flipped
edge_score(s, edge) ==
  IF sorted(Colors(s, edge)) # sorted(Colors(_create_solved_state, edge)) THEN 1
  ELSE IF Colors(s, edge) # Colors(_create_solved_state, edge) THEN 1
  ELSE 0

RECURSIVE SumScores(_, _)
SumScores(scores, k) ==
  IF k > Len(scores) THEN 0 ELSE scores[k] + SumScores(scores, k + 1)

\* Heuristics.corner_edge_heuristic
corner_edge_heuristic(s) ==
  IF is_solved(s) THEN 0
  ELSE LET heuristic ==
             SumScores([k \in 1..Len(corners) |-> corner_score(s, corners[k])], 1)
             + SumScores([k \in 1..Len(edges) |-> edge_score(s, edges[k])], 1)
       IN  IF heuristic > 0
           THEN (IF heuristic \div 4 > 1 THEN heuristic \div 4 ELSE 1)
           ELSE 0

bottom_positions ==
  << 45, 46, 47, 48, 49, 50, 51, 52, 53,
     6, 7, 8, 15, 16, 17, 24, 25, 26, 33, 34, 35 >>

middle_positions == << 3, 5, 10, 12, 14, 16, 19, 21, 23, 25, 28, 30, 32, 34 >>

\* the entries of a position list whose facelet differs from the solved cube's
Wrong(s, positions) ==
  { k \in 1..Len(positions) :
      At(s, positions[k]) # At(_create_solved_state, positions[k]) }

\* Heuristics.layer_completion_heuristic
layer_completion_heuristic(s) ==
  IF Wrong(s, bottom_positions) # {}
  THEN Cardinality(Wrong(s, bottom_positions)) + 20
  ELSE 2 * Cardinality(Wrong(s, middle_positions))

\* Heuristics.estimate_moves_to_solve
estimate_moves_to_solve(s) == corner_edge_heuristic(s)

\* Heuristics.combined_heuristic: int(0.3 * h1 + 0.5 * h2 + 0.2 * h3).  For
\* h1 <= 5, h2 <= 7, h3 <= 41, all the three can be, the floating-point sum
\* truncates to the integer part of (3 h1 + 5 h2 + 2 h3) / 10.
combined_heuristic(s) ==
  (3 * manhattan_distance(s) + 5 * corner_edge_heuristic(s)
     + 2 * layer_completion_heuristic(s)) \div 10

(***************************************************************************)
(* MoveOptimizer (src/src/algorithms/utils.py)                             *)
(***************************************************************************)
\* MoveOptimizer.move_values
move_values(move) ==
  IF EndsWithPrime(move) THEN -1 ELSE IF EndsWith2(move) THEN 2 ELSE 1

\* the inner while loop: the first index from j on (1-based) whose move is not
\* on face f, or Len(moves) + 1
RECURSIVE SameFaceEnd(_, _, _)
SameFaceEnd(moves, f, j) ==
  IF j <= Len(moves) /\ face(moves[j]) = f THEN SameFaceEnd(moves, f, j + 1) ELSE j

\* sum(self.move_values[move] for move in consecutive_moves), the consecutive
\* moves being moves[i..j-1]
RECURSIVE SumValues(_, _, _)
SumValues(moves, i, j) ==
  IF i >= j THEN 0 ELSE move_values(moves[i]) + SumValues(moves, i + 1, j)

\* what one pass of the outer loop appends for net_rotation on face f
OptimizedMove(f, net_rotation) ==
  IF net_rotation = 1 THEN << f >>
  ELSE IF net_rotation = 2 THEN << f \o "2" >>
  ELSE IF net_rotation = 3 THEN << f \o "'" >>
  ELSE << >>

\* a faulty optimizer: the net rotation is not reduced modulo 4
RECURSIVE OptimizeFrom_unreduced(_, _, _)
OptimizeFrom_unreduced(moves, i, out) ==
  IF i > Len(moves) THEN out
  ELSE The({ OptimizeFrom_unreduced(moves, j,
               out \o OptimizedMove(face(moves[i]), SumValues(moves, i, j)))
             : j \in { SameFaceEnd(moves, face(moves[i]), i + 1) } })

\* the outer while loop from index i on (1-based), out being optimized so far
RECURSIVE OptimizeFrom(_, _, _)
OptimizeFrom(moves, i, out) ==
  IF i > Len(moves) THEN out
  ELSE The({ OptimizeFrom(moves, j,
               out \o OptimizedMove(face(moves[i]), SumValues(moves, i, j) % 4))
             : j \in { SameFaceEnd(moves, face(moves[i]), i + 1) } })

\* MoveOptimizer.optimize_sequence
optimize_sequence(moves) ==
  IF moves = << >> THEN moves ELSE OptimizeFrom(moves, 1, << >>)

\* no call of optimize_sequence yet
OptimizerInit ==
  /\ sequence = << >>
  /\ optimized = << >>

\* one call optimize_sequence(moves)
Optimize(moves) ==
  /\ sequence' = moves
  /\ optimized' = optimize_sequence(moves)
  /\ UNCHANGED <<cube_vars, solver_vars, path, solutions, call_vars, search_vars, rng_vars, scrambles, copy_vars>>

(***************************************************************************)
(* AStarSolver.solve_iterative_deepening: one action for its start, one    *)
(* for each pass of its "for depth" loop. depth is the loop variable.      *)
(***************************************************************************)
\* AStarSolver.all_moves
all_moves ==
  << "U", "U'", "U2", "D", "D'", "D2", "L", "L'", "L2",
     "R", "R'", "R2", "F", "F'", "F2", "B", "B'", "B2" >>

\* AStarSolver.opposite_moves
opposite_moves(move) ==
  IF EndsWithPrime(move) THEN face(move)
  ELSE IF EndsWith2(move) THEN move
  ELSE move \o "'"

\* AStarSolver._is_redundant_pattern
_is_redundant_pattern(moves) ==
  IF Len(moves) < 3 THEN FALSE
  ELSE IF face(moves[1]) = face(moves[3]) /\ face(moves[1]) # face(moves[2]) THEN TRUE
  ELSE Cardinality({ face(moves[k]) : k \in 1..Len(moves) }) = 1

\* a faulty pruning: only the face of the last move is left out
_get_valid_moves_last_face(moves) ==
  IF moves = << >> THEN all_moves
  ELSE SelectSeq(all_moves, LAMBDA move : face(move) # face(moves[Len(moves)]))

\* AStarSolver._get_valid_moves
_get_valid_moves(moves) ==
  IF moves = << >> THEN all_moves
  ELSE SelectSeq(all_moves,
         LAMBDA move :
           /\ move # opposite_moves(moves[Len(moves)])
           /\ face(move) # face(moves[Len(moves)])
           /\ Len(moves) >= 2
                => ~ _is_redundant_pattern(
                       Append(SubSeq(moves, Len(moves) - 1, Len(moves)), move)))

\* one call _get_valid_moves(moves)
GetValidMoves(moves) ==
  /\ pc = "idle"
  /\ path' = moves
  /\ pc' = "done"
  /\ returned' = "list"
  /\ result' = _get_valid_moves(moves)
  /\ UNCHANGED <<input, strategies, expanded, search_vars, cube_vars, solver_vars,
                 opt_vars, rng_vars, scrambles, copy_vars, solutions>>

\* the value None of _depth_limited_search, and a returned list
NoPath == [found |-> FALSE, moves |-> << >>]
PathOf(moves) == [found |-> TRUE, moves |-> moves]

\* a faulty search: the first path of d moves, never testing is_solved
_depth_limited_search_untested(cube, d, moves) ==
  PathOf(SubSeq(all_moves, 1, d))

\* AStarSolver._depth_limited_search, and its for-move loop over the lo-th to
\* the hi-th of valid_moves: the first half of the moves, then, when none of
\* them gave a path, the second half
RECURSIVE _depth_limited_search(_, _, _)
RECURSIVE SearchFrom(_, _, _, _, _, _)
RECURSIVE SearchOr(_, _, _, _, _, _, _)
_depth_limited_search(cube, d, moves) ==
  IF is_solved(cube) THEN PathOf(moves)
  ELSE IF d = 0 THEN NoPath
  ELSE The({ SearchFrom(c, d, moves, valid_moves, 1, Len(valid_moves))
             : c \in {cube}, valid_moves \in { _get_valid_moves(moves) } })

SearchFrom(cube, d, moves, valid_moves, lo, hi) ==
  IF lo > hi THEN NoPath
  ELSE IF lo = hi
  THEN The({ _depth_limited_search(new_cube, d - 1, Append(moves, valid_moves[lo]))
             : new_cube \in { apply_move(cube, valid_moves[lo]) } })
  ELSE The({ SearchOr(here, cube, d, moves, valid_moves, ((lo + hi) \div 2) + 1, hi)
             : here \in { SearchFrom(cube, d, moves, valid_moves, lo, (lo + hi) \div 2) } })

SearchOr(here, cube, d, moves, valid_moves, lo, hi) ==
  IF here.found THEN here ELSE SearchFrom(cube, d, moves, valid_moves, lo, hi)

\* solve_iterative_deepening up to the first pass of its loop; range(1,
\* max_depth + 1) is empty when max_depth < 1
SolveIterativeDeepening ==
  /\ pc = "idle"
  /\ input' = [state |-> state, move_history |-> move_history,
               heuristic_type |-> "", statistics |-> statistics]
  /\ IF max_depth < 1
     THEN /\ pc' = "done"
          /\ returned' = "None"
          /\ UNCHANGED depth
     ELSE /\ pc' = "iterative_deepening"
          /\ depth' = 1
          /\ UNCHANGED returned
  /\ UNCHANGED <<result, strategies, expanded, queue, visited, dequeued, unseen_skips,
                 rev_vars, brute_vars, cube_vars, solver_vars, path, solutions, opt_vars, rng_vars, scrambles, copy_vars>>

\* one pass of "for depth in range(1, self.max_depth + 1)"; slow: the pass took
\* more than 10 seconds (search_time > 10), which ends the loop
DeepeningPass(slow) ==
  /\ pc = "iterative_deepening"
  /\ \E r \in { _depth_limited_search(state, depth, << >>) } :
       IF r.found
       THEN /\ pc' = "done"
            /\ returned' = "list"
            /\ result' = optimize_sequence(r.moves)
            /\ UNCHANGED depth
       ELSE IF slow \/ depth >= max_depth
       THEN /\ pc' = "done"
            /\ returned' = "None"
            /\ UNCHANGED <<result, depth>>
       ELSE /\ depth' = depth + 1
            /\ UNCHANGED <<pc, returned, result>>
  /\ UNCHANGED <<input, strategies, expanded, queue, visited, dequeued, unseen_skips,
                 rev_vars, brute_vars, cube_vars, solver_vars, path, solutions, opt_vars, rng_vars, scrambles, copy_vars>>

(***************************************************************************)
(* Spec: the cube object under its own operations, all 18 moves.           *)
(***************************************************************************)
Init ==
  /\ CubeInit
  /\ SolverInit
  /\ max_depth = 25
  /\ OptimizerInit
  /\ RandomInit

Next ==
  \/ \E move \in MoveSet :
       Len(move_history) < MaxMoves /\ ExecuteMove(move)
  \/ \E n \in 0..(MaxMoves - Len(move_history)) :
       \E moves \in MoveLists[n] : ExecuteSequence(moves)
  \/ \E num_moves \in 0..(MaxMoves - Len(move_history)) :
       Len(scrambles) < MaxCalls /\ Scramble(num_moves, NoSeed)

Spec == Init /\ [][Next]_vars

(***************************************************************************)
(* SolveSpec: a cube is built, a few moves are executed on it, and it is   *)
(* handed to solve of a solver built with one of MaxDepthChoices.          *)
(***************************************************************************)
\* the moves executed on the cube before solve: up to MaxScramble moves out
\* of ScrambleMoves, and on RubikCube() any single move as well
ScrambleMoves == {"U", "F"}

SingleMoves == { <<m>> : m \in MoveSet }

ScrambleLists ==
  UNION { SeqsOfLen(ScrambleMoves, n) : n \in 0..MaxScramble }

\* RubikCube(), and RubikCube(array) with an array no move sequence produces
SolveStarts ==
  { _create_solved_state, AsArray([k \in 1..54 |-> (k - 1) \div 36]) }

SolveInit ==
  /\ CubeInit
  /\ start \in SolveStarts
  /\ SolverInit
  /\ max_depth \in MaxDepthChoices
  /\ OptimizerInit
  /\ RandomInit

SolveNext ==
  \/ \E move \in MoveSet :
       /\ \/ Append(move_history, move) \in ScrambleLists
          \/ start = _create_solved_state /\ Append(move_history, move) \in SingleMoves
       /\ ExecuteMove(move)
  \/ \E heuristic_type \in HeuristicNames : Solve(heuristic_type)
  \/ FastBfsLevel
  \/ ReverseLength
  \/ BruteForceIteration

SolveSpec == SolveInit /\ [][SolveNext]_vars

\* solve is one sequential call: once it has started, each strategy loop goes
\* on to its next pass until solve returns.  The solver is the one built by
\* AStarSolver() with the default max_depth.
SolveLiveInit ==
  /\ SolveInit
  /\ max_depth = 25

SolveLiveSpec ==
  /\ SolveLiveInit
  /\ [][SolveNext]_vars
  /\ WF_vars(FastBfsLevel)
  /\ WF_vars(ReverseLength)
  /\ WF_vars(BruteForceIteration)

(***************************************************************************)
(* ScrambleSpec: freshly constructed cubes scrambled one after the other,  *)
(* with and without a seed, as test_scramble does.                         *)
(***************************************************************************)
ScrambleInit ==
  /\ Init
  /\ start = _create_solved_state

\* the draws followed here: the first three and the last of the 18
ScrambleDraws == {0, 1, 2, 17}

ScrambleNext ==
  \/ \E num_moves \in 0..MaxScramble :
       \E seed \in Seeds \cup {NoSeed} :
         /\ Len(scrambles) < MaxCalls
         /\ move_history = << >>
         /\ Scramble(num_moves, seed)
         /\ \A id \in DOMAIN draws' :
              \A k \in 1..Len(draws'[id]) : draws'[id][k] \in ScrambleDraws
  \/ NewCube

ScrambleSpec == ScrambleInit /\ [][ScrambleNext]_vars

(***************************************************************************)
(* OptSpec: optimize_sequence called with move lists, beside a cube that   *)
(* is moved away from solved.                                              *)
(***************************************************************************)
\* longest list handed to optimize_sequence
MaxOptLen == 4
\* the moves these lists are made of
OptMoves == {"U", "U'", "U2", "R'", "F", "F'"}

OptLists == UNION { SeqsOfLen(OptMoves, n) : n \in 0..MaxOptLen }

OptNext ==
  \/ \E move \in MoveSet :
       Append(move_history, move) \in ScrambleLists /\ ExecuteMove(move)
  \/ \E moves \in OptLists :
       sequence = << >> /\ optimized = << >> /\ Optimize(moves)

OptSpec == ScrambleInit /\ [][OptNext]_vars

(***************************************************************************)
(* DeepeningSpec: cubes scrambled as in SolveSpec, then one call of        *)
(* solve_iterative_deepening by a solver constructed with a small          *)
(* max_depth.                                                              *)
(***************************************************************************)
MaxSearchDepth == 3

DeepeningInit ==
  /\ CubeInit
  /\ start \in SolveStarts
  /\ SolverInit
  /\ max_depth \in 0..MaxSearchDepth
  /\ OptimizerInit
  /\ RandomInit

\* a scramble the three moves R U R' undo, executed on RubikCube() as well
TripleScramble == << "R", "U'", "R'" >>

DeepeningNext ==
  \/ \E move \in MoveSet :
       /\ \/ Append(move_history, move) \in ScrambleLists
          \/ start = _create_solved_state /\ Append(move_history, move) \in SingleMoves
          \/ /\ start = _create_solved_state
             /\ \E n \in 1..Len(TripleScramble) :
                  Append(move_history, move) = SubSeq(TripleScramble, 1, n)
       /\ ExecuteMove(move)
  \/ SolveIterativeDeepening
  \/ \E slow \in BOOLEAN : DeepeningPass(slow)

DeepeningSpec == DeepeningInit /\ [][DeepeningNext]_vars

(***************************************************************************)
(* CubeSpec: one cube and a copy of it under execute_move (with arguments  *)
(* that are no moves among them), scramble, reset and copy.                *)
(***************************************************************************)
\* most moves one object executes in all
MaxCount == 3
\* the arguments handed to execute_move: two moves, two strings that are no
\* moves, and two values that are no strings
CubeArguments == {"U2", "F"} \cup {"X", "u"} \cup NotStrings
\* the draws followed here
CubeDraws == {2, 12}

CubeNext ==
  \/ \E move \in CubeArguments :
       /\ is_valid_move(move) => Len(move_history) < MaxMoves /\ move_count < MaxCount
       /\ ExecuteMove(move)
  \/ \E num_moves \in 1..MaxMoves :
       /\ scrambles = << >>
       /\ Len(move_history) + num_moves <= MaxMoves
       /\ move_count + num_moves <= MaxCount
       /\ Scramble(num_moves, NoSeed)
       /\ \A id \in DOMAIN draws' :
            \A k \in 1..Len(draws'[id]) : draws'[id][k] \in CubeDraws
  \/ Reset
  \/ ~ other.made /\ copy
  \/ Swap

CubeSpec == ScrambleInit /\ [][CubeNext]_vars

(***************************************************************************)
(* TurnSpec: a fresh cube under execute_move with moves of the Left and    *)
(* Front faces, for the heuristics on states a few moves from solved.      *)
(***************************************************************************)
\* longest move_history built here
MaxTurns == 4
TurnMoves == {"L", "L'", "F", "F'"}

TurnNext ==
  \E move \in TurnMoves : Len(move_history) < MaxTurns /\ ExecuteMove(move)

TurnSpec == ScrambleInit /\ [][TurnNext]_vars

(***************************************************************************)
(* HeuristicSpec: a cube scrambled as in SolveSpec is handed to solve once *)
(* under each of the three heuristic names, in the order of heuristics.    *)
(***************************************************************************)
HeuristicNext ==
  \/ \E move \in MoveSet :
       /\ solutions = << >>
       /\ \/ Append(move_history, move) \in ScrambleLists
          \/ start = _create_solved_state /\ Append(move_history, move) \in SingleMoves
       /\ ExecuteMove(move)
  \/ /\ Len(solutions) < Len(heuristics)
     /\ Solve(heuristics[Len(solutions) + 1])
  \/ FastBfsLevel
  \/ ReverseLength
  \/ BruteForceIteration
  \/ NextHeuristic

HeuristicSpec == SolveLiveInit /\ [][HeuristicNext]_vars

(***************************************************************************)
(* PruneSpec: _get_valid_moves called with a list of up to MaxPath moves.  *)
(***************************************************************************)
\* longest list handed to _get_valid_moves
MaxPath == 3

PathLists == UNION { SeqsOfLen(MoveSet, n) : n \in 0..MaxPath }

PruneNext == \E moves \in PathLists : GetValidMoves(moves)

PruneSpec == ScrambleInit /\ [][PruneNext]_vars

(***************************************************************************)
(* GreedySpec: _brute_force_solve called on its own on a cube a few moves  *)
(* from solved, or on a cube built from an array.                          *)
(***************************************************************************)
\* a state of the cube 412 quarter turns from RubikCube(): the one that the
\* moves of FarSolution, last to first and each repeated once less than its
\* order (7 times for F and F', 3 times for the others), produce
FarState ==
  AsArray(<< 5, 4, 0, 2, 0, 1, 3, 0, 4,  2, 0, 4, 3, 1, 1, 5, 4, 3,
             1, 0, 1, 4, 2, 4, 0, 2, 0,  5, 5, 4, 5, 3, 3, 2, 5, 2,
             1, 1, 3, 5, 4, 0, 5, 2, 3,  0, 3, 4, 1, 5, 3, 1, 2, 2 >>)

\* RubikCube() or RubikCube(array), as in CubeInit
GreedyInit ==
  /\ start \in SolveStarts \cup {FarState}
  /\ state = start
  /\ move_history = << >>
  /\ move_count = 0
  /\ raised = "none"
  /\ other = NoCube
  /\ shared = {}
  /\ SolverInit
  /\ max_depth = 25
  /\ OptimizerInit
  /\ RandomInit

GreedyNext ==
  \/ \E move \in MoveSet :
       /\ start = _create_solved_state
       /\ Append(move_history, move) \in ScrambleLists \cup SingleMoves
       /\ ExecuteMove(move)
  \/ BruteForceSolve
  \/ BruteForceIteration

GreedySpec == GreedyInit /\ [][GreedyNext]_vars

(***************************************************************************)
(* Properties of the move engine, checked on the states of Spec.           *)
(***************************************************************************)
\* C2 : from every state reached from the solved cube, a face turn X followed
\* by X' gives the state back, and so does X' followed by X, for each of the
\* six faces.
InverseUndoesMove ==
  start = _create_solved_state =>
    \A X \in {"U", "D", "L", "R", "F", "B"} :
      /\ apply_move(apply_move(state, X), X \o "'") = state
      /\ apply_move(apply_move(state, X \o "'"), X) = state

\* C3 : from every state reached from the solved cube, each of the 18 moves
\* applied four times in a row gives the state back.
FourTimesIsIdentity ==
  start = _create_solved_state =>
    \A m \in MoveSet :
      apply_move(apply_move(apply_move(apply_move(state, m), m), m), m) = state

\* C4 : from every state reached from the solved cube, a turn of a face and a
\* turn of the opposite face (U/D, L/R, F/B; quarter, counter-quarter or half
\* turn each) give the same state in either order.
OppositeFacesCommute ==
  start = _create_solved_state =>
    \A p \in { <<"U", "D">>, <<"L", "R">>, <<"F", "B">> } :
      \A a \in {p[1], p[1] \o "'", p[1] \o "2"} :
        \A b \in {p[2], p[2] \o "'", p[2] \o "2"} :
          apply_move(apply_move(state, a), b) = apply_move(apply_move(state, b), a)

\* C5 : on every 54-label state (the solved cube's states and the states
\* built from explicit arrays alike) the half turn X2 gives the same state as
\* the quarter turn X applied twice, for each of the six faces.
HalfTurnIsTwoQuarterTurns ==
  \A X \in {"U", "D", "L", "R", "F", "B"} :
    apply_move(state, X \o "2") = apply_move(apply_move(state, X), X)

\* a cube built from an explicit array, two moves later, on which each half
\* turn changes something
HalfTurnWitness ==
  /\ start # _create_solved_state
  /\ Len(move_history) = 2
  /\ \A X \in {"U", "D", "L", "R", "F", "B"} : apply_move(state, X \o "2") # state

\* C6 : every move is a bijection on the 54 positions, and in every state
\* reached from the solved cube by execute_move, execute_sequence and scramble
\* each of the six labels occurs exactly 9 times.
NineOfEachLabel ==
  /\ MovesArePermutations
  /\ start = _create_solved_state => \A c \in 0..5 : LabelCounts(state)[c] = 9

\* the solved cube after two moves that left it unsolved
NineOfEachLabelWitness ==
  /\ start = _create_solved_state
  /\ Len(move_history) = 2
  /\ ~ is_solved(state)

\* C7 : no move changes a center facelet (positions 4, 13, 22, 31, 40, 49),
\* and in every state reached from the solved cube the centers hold the
\* labels 0, 1, 2, 3, 4, 5 in this order.
CentersStay ==
  /\ \A move \in MoveSet : \A f \in 0..5 : At(MoveSource[move], 9 * f + 4) = 9 * f + 4
  /\ start = _create_solved_state => \A f \in 0..5 : At(state, 9 * f + 4) = f

\* the solved cube after two moves none of whose faces is back in place
CentersStayWitness ==
  /\ start = _create_solved_state
  /\ Len(move_history) = 2
  /\ \A f \in 0..5 : \E k \in 0..8 : At(state, 9 * f + k) # f

(***************************************************************************)
(* Properties of AStarSolver.solve, checked on the states of SolveSpec.    *)
(***************************************************************************)
\* AStarSolver.get_statistics
get_statistics == statistics

\* C1 : when the cube handed to solve was reached from the solved cube and
\* solve returned a move list, executing the list on a copy of that cube
\* gives the solved cube, whichever strategy returned it.
ReturnedSequenceSolvesInput ==
  (start = _create_solved_state /\ pc = "done" /\ returned = "list")
    => is_solved(execute_sequence(input.state, result))

\* C8 : after solve returned a list get_statistics() has solution_found true
\* and solution_length the length of the list; after it returned None
\* solution_found is false.
StatisticsReportResult ==
  pc = "done" =>
    /\ returned = "list" => /\ get_statistics.solution_found
                            /\ get_statistics.solution_length = Len(result)
    /\ returned = "None" => ~ get_statistics.solution_found

\* C9 : a list returned by solve has at most max_depth moves, for every
\* max_depth the solver was built with and every cube.
ReturnedLengthWithinMaxDepth ==
  (pc = "done" /\ returned = "list") => Len(result) <= max_depth

\* C11 : solve called with a heuristic name that is none of manhattan,
\* corner_edge, combined fails with ValueError on every cube, before any
\* strategy has started or expanded anything, and leaves the cube's state and
\* move_history and the solver's statistics as they were at the call.
UnknownHeuristicFailsFirst ==
  (pc # "idle" /\ input.heuristic_type \notin {"manhattan", "corner_edge", "combined"})
    => /\ pc = "done"
       /\ returned = "ValueError"
       /\ result = << >>
       /\ strategies = << >>
       /\ expanded = 0
       /\ state = input.state
       /\ move_history = input.move_history
       /\ statistics = input.statistics

\* solve has failed on a cube that two moves had left unsolved
UnknownHeuristicWitness ==
  /\ returned = "ValueError"
  /\ Len(input.move_history) = 2
  /\ ~ is_solved(input.state)
  /\ start = _create_solved_state

\* C12 : solve on the solved cube after one move, for each of the 18 moves,
\* returns a list of at most 3 moves that takes that cube to solved; after
\* the move U the list is exactly [U'].
SingleMoveSolvedShortly ==
  (pc = "done" /\ input.heuristic_type \in {"manhattan", "corner_edge", "combined"}
     /\ start = _create_solved_state /\ Len(input.move_history) = 1)
    => /\ returned = "list"
       /\ Len(result) <= 3
       /\ is_solved(execute_sequence(input.state, result))
       /\ input.move_history = <<"U">> => result = <<"U'">>

\* solve has returned on the solved cube after B2, which _fast_bfs cannot undo
SingleMoveWitness ==
  /\ pc = "done"
  /\ returned = "list"
  /\ start = _create_solved_state
  /\ input.move_history = <<"B2">>
  /\ strategies = <<"_fast_bfs", "_reverse_solve">>

\* C13 : within one call of solve the strategies start in the order
\* _fast_bfs, _reverse_solve, _brute_force_solve; a strategy has started only
\* when each earlier one ran to its end without a solution (all levels of the
\* BFS, all lengths of the enumeration); a list is returned by the strategy
\* started last, with no strategy started after it; None is returned only
\* when all three have run and the greedy loop has left the cube unsolved.
StrategiesInOrder ==
  LET order == << "_fast_bfs", "_reverse_solve", "_brute_force_solve" >>
  IN  /\ \E n \in 0..3 : strategies = SubSeq(order, 1, n)
      /\ pc # "done" => returned = "nothing"
      /\ pc = "fast_bfs" => strategies = SubSeq(order, 1, 1)
      /\ pc = "reverse_solve" => strategies = SubSeq(order, 1, 2)
      /\ pc = "brute_force" => strategies = order
      /\ Len(strategies) >= 2 => depth = BfsLevels - 1 /\ queue = << >>
      /\ Len(strategies) = 3 => length = ReverseMaxLength
      /\ returned = "None" =>
            /\ pc = "done"
            /\ strategies = order
            /\ ~ is_solved(working_cube)

\* solve has returned None after all three strategies
StrategiesInOrderWitness ==
  /\ pc = "done"
  /\ returned = "None"
  /\ strategies = << "_fast_bfs", "_reverse_solve", "_brute_force_solve" >>
  /\ iteration > 0

\* C14 : with the clock read as the count of expansions, every strategy
\* compares it with timeout inside its loop: once the clock is past timeout
\* the running strategy expands nothing more and is left, and the only
\* exception solve ever ends with is the one for an unknown heuristic name.
TimeoutAbandonsSearch ==
  [][ /\ (pc \in {"fast_bfs", "reverse_solve", "brute_force"} /\ expanded > timeout)
           => (expanded' = expanded /\ pc' # pc)
      /\ returned' = "ValueError" => input'.heuristic_type \notin valid_heuristics
    ]_vars

\* C15 : a call of solve with a recognised heuristic name eventually returns
\* a move list or None; the BFS never runs more than 6 levels, the
\* enumeration never goes past length 8 and the greedy loop never runs more
\* than 50 iterations.
SolveTerminates ==
  /\ [](depth < BfsLevels /\ length <= ReverseMaxLength /\ iteration < MaxIterations)
  /\ (pc # "idle" /\ input.heuristic_type \in valid_heuristics)
        ~> (pc = "done" /\ returned \in {"list", "None"})

\* solve has returned after the last level of the BFS, the last length of the
\* enumeration and a greedy loop that ran into its length limit
SolveTerminatesWitness ==
  /\ pc = "done"
  /\ returned = "None"
  /\ depth = BfsLevels - 1
  /\ length = ReverseMaxLength
  /\ Len(solution) > MaxSolutionLength
  /\ iteration > 0

\* C16 : for every move list and every cube state reached from solved,
\* executing the list and executing optimize_sequence of the list on that
\* state give the same state.
OptimizedSequenceSameState ==
  execute_sequence(state, sequence) = execute_sequence(state, optimized)

\* the positions where a maximal run of moves on one face starts
RunStarts(S) == { i \in 1..Len(S) : i = 1 \/ face(S[i]) # face(S[i - 1]) }

\* the positions of the maximal run that starts at i
RunOf(S, i) == { j \in i..Len(S) : \A k \in i..j : face(S[k]) = face(S[i]) }

\* quarter turns of the run that starts at i: X = +1, X' = -1, X2 = +2
RECURSIVE QuarterTurns(_, _)
QuarterTurns(S, run) ==
  IF run = {} THEN 0
  ELSE LET j == CHOOSE j \in run : TRUE
       IN  (CASE S[j] = face(S[j]) -> 1
              [] S[j] = face(S[j]) \o "'" -> -1
              [] S[j] = face(S[j]) \o "2" -> 2) + QuarterTurns(S, run \ {j})

\* what stands for the run that starts at i
NetOfRun(S, i) ==
  LET net == QuarterTurns(S, RunOf(S, i)) % 4
  IN  CASE net = 0 -> << >>
        [] net = 1 -> << face(S[i]) >>
        [] net = 2 -> << face(S[i]) \o "2" >>
        [] net = 3 -> << face(S[i]) \o "'" >>

\* the nets of the runs that start at the positions in starts, in order
RECURSIVE NetsInOrder(_, _)
NetsInOrder(S, starts) ==
  IF starts = {} THEN << >>
  ELSE LET i == CHOOSE i \in starts : \A j \in starts : i <= j
       IN  NetOfRun(S, i) \o NetsInOrder(S, starts \ {i})

\* C17 : optimize_sequence(S) is no longer than S, and it is what replacing
\* each maximal run of moves on one face by its net quarter-turn count modulo
\* 4 gives (nothing for 0, X for 1, X2 for 2, X' for 3), the runs in order.
OptimizedIsNetOfRuns ==
  /\ Len(optimized) <= Len(sequence)
  /\ optimized = NetsInOrder(sequence, RunStarts(sequence))

\* a run of net 3 made of two moves and a run of net 0
OptimizedIsNetOfRunsWitness ==
  /\ sequence = << "U", "U2", "F", "F'" >>
  /\ optimized = << "U'" >>
  /\ state # _create_solved_state

\* the pairs (X, X'), (X', X) and (X2, X2) of the six faces
ReversalPairs ==
  UNION { { <<f, f \o "'">>, <<f \o "'", f>>, <<f \o "2", f \o "2">> }
          : f \in {"U", "D", "L", "R", "F", "B"} }

\* C18 : every call scramble(n) returns exactly n valid moves, has executed
\* exactly these moves in order on the cube and appended them to move_history,
\* and no two consecutive returned moves are a reversal pair, whatever the
\* generator draws.
ScrambleReturnsItsMoves ==
  \A c \in 1..Len(scrambles) :
    LET call == scrambles[c]
    IN  /\ Len(call.returned) = call.num_moves
        /\ \A k \in 1..Len(call.returned) : call.returned[k] \in MoveSet
        /\ call.after.state = execute_sequence(call.before.state, call.returned)
        /\ call.after.move_history = call.before.move_history \o call.returned
        /\ \A k \in 1..(Len(call.returned) - 1) :
             <<call.returned[k], call.returned[k + 1]>> \notin ReversalPairs

\* a call whose second draw, position 1 of the list, gave U2 after U because
\* U' had been left out of the list
ScrambleReturnsItsMovesWitness ==
  /\ Len(scrambles) = 1
  /\ scrambles[1].num_moves = 2
  /\ scrambles[1].returned = << "U", "U2" >>
  /\ draws[NoSeed] = << 0, 1 >>
  /\ move_history = << "U", "U2" >>

\* the call was made on a freshly constructed solved cube
OnFreshCube(call) ==
  /\ call.before.state = _create_solved_state
  /\ call.before.move_history = << >>

\* C19 : two calls of scramble on freshly constructed solved cubes with the
\* same n and the same seed, not None, return the same move list and leave
\* the two cubes in the same state.
ScrambleDeterministicInSeed ==
  \A c1 \in 1..Len(scrambles) : \A c2 \in 1..Len(scrambles) :
    ( /\ OnFreshCube(scrambles[c1]) /\ OnFreshCube(scrambles[c2])
      /\ scrambles[c1].num_moves = scrambles[c2].num_moves
      /\ scrambles[c1].seed = scrambles[c2].seed
      /\ scrambles[c1].seed # NoSeed )
    => /\ scrambles[c1].returned = scrambles[c2].returned
       /\ scrambles[c1].after.state = scrambles[c2].after.state
       /\ scrambles[c1].after.move_history = scrambles[c2].after.move_history

\* two cubes scrambled with two moves and the same seed, one after the other
ScrambleDeterministicWitness ==
  /\ Len(scrambles) = 2
  /\ OnFreshCube(scrambles[1]) /\ OnFreshCube(scrambles[2])
  /\ scrambles[1].seed \in Seeds /\ scrambles[2].seed = scrambles[1].seed
  /\ scrambles[1].num_moves = 2 /\ scrambles[2].num_moves = 2
  /\ Len(scrambles[2].returned) = 2
  /\ ~ is_solved(state)

\* C20 : manhattan_distance, corner_edge_heuristic, layer_completion_heuristic
\* and combined_heuristic are 0 on the solved cube and a positive integer on
\* the cube one move away from the solved cube, for each of the 18 moves.
HeuristicsZeroThenPositive ==
  LET values == { manhattan_distance(state), corner_edge_heuristic(state),
                  layer_completion_heuristic(state), combined_heuristic(state) }
  IN  /\ is_solved(state) => values = {0}
      /\ (start = _create_solved_state /\ Len(move_history) = 1)
           => \A h \in values : h \in Nat /\ h > 0

\* the cube after D: the bottom layer is not complete
HeuristicsWitness ==
  /\ start = _create_solved_state
  /\ move_history = << "D" >>
  /\ manhattan_distance(state) = 3
  /\ corner_edge_heuristic(state) = 2
  /\ layer_completion_heuristic(state) = 32
  /\ combined_heuristic(state) = 8

\* C21 : after solve has returned, with a move list or with None, the cube
\* handed to it has the labels and the move_history it had when solve was
\* called: every strategy works on copies.
SolveKeepsInput ==
  (pc = "done" /\ returned \in {"list", "None"})
    => /\ state = input.state
       /\ move_history = input.move_history

\* solve has returned a list the BFS found by executing moves on copies of a
\* scrambled input, which is still scrambled
SolveKeepsInputWitness ==
  /\ pc = "done"
  /\ returned = "list"
  /\ result # << >>
  /\ expanded > 0
  /\ move_history = << "R" >>
  /\ ~ is_solved(state)

UThenRIsNotRThenU ==
  (start = _create_solved_state /\ move_history = << "U", "R" >>)
    => state # execute_sequence(_create_solved_state, << "R", "U" >>)

\* the solved cube after U then R
UThenRWitness ==
  /\ start = _create_solved_state
  /\ move_history = << "U", "R" >>
  /\ move_count = 2
  /\ state = apply_move(apply_move(_create_solved_state, "U"), "R")

\* C28 : for every move list S and every cube state s reached from solved,
\* executing S and then _invert_sequence(S) on s gives s again.
InvertedSequenceUndoes ==
  execute_sequence(execute_sequence(state, sequence), _invert_sequence(sequence)) = state

\* C29: _fast_bfs skips a node taken off the queue as already visited only
\* when a node with the identical full state was taken off the queue before
\* it, the key of the visited set telling apart any two distinct states that
\* the search reaches from the input.
VisitedKeyTellsStatesApart ==
  unseen_skips = 0

\* C22: a list returned by solve_iterative_deepening takes the cube it was
\* handed to the solved state and has at most max_depth moves, and it is the
\* empty list when that cube was already solved.
DeepeningReturnsSolution ==
  (pc = "done" /\ returned = "list")
    => /\ is_solved(execute_sequence(input.state, result))
       /\ Len(result) <= max_depth
       /\ is_solved(input.state) => result = << >>

DeepeningWitness ==
  /\ pc = "done" /\ returned = "list"
  /\ start = _create_solved_state /\ move_history = << "F", "U" >>
  /\ result = << "U'", "F'" >> /\ depth = 2 /\ max_depth = 3

\* C23: execute_move with an argument that is not one of the 18 moves, or not
\* a string, raises ValueError and leaves the labels, move_history and both
\* move counts of the cube as they were.
InvalidMoveChangesNothing ==
  [][\A move \in CubeArguments \ MoveSet :
       ExecuteMove(move)
         => /\ raised' = "ValueError"
            /\ state' = state
            /\ move_history' = move_history
            /\ move_count' = move_count
            /\ get_move_count' = get_move_count]_vars

InvalidMoveWitness ==
  /\ raised = "ValueError"
  /\ move_history = << "F", "U2" >> /\ move_count = 2
  /\ state = execute_sequence(_create_solved_state, << "F", "U2" >>)

\* C24: right after copy() the copy has the labels and the move_history of
\* the original, and no later execute_move, scramble or reset on one of the
\* two objects changes the labels or the move_history of the other.
CopyIsIndependent ==
  [][/\ copy => /\ __eq__(other'.state, state')
               /\ other'.move_history = move_history'
     /\ (other.made /\ ~ copy /\ ~ Swap)
          => /\ other'.state = other.state
             /\ other'.move_history = other.move_history]_vars

CopyIsIndependentWitness ==
  /\ other.made
  /\ other.move_history = << "F" >> /\ other.state = apply_move(_create_solved_state, "F")
  /\ move_history = << >> /\ is_solved(state) /\ move_count = 1

\* C25: for two cubes with labels in 0..5, a == b exactly when their label
\* sequences are identical, which is exactly when their state strings are
\* equal; and equal cubes have equal hashes.
EqualityAgreesWithStringAndHash ==
  other.made
    => /\ __eq__(state, other.state) <=> (state = other.state)
       /\ (state = other.state)
            <=> (get_state_string(state) = get_state_string(other.state))
       /\ __eq__(state, other.state) => __hash__(state) = __hash__(other.state)

EqualityWitness ==
  /\ other.made
  /\ move_history = << "U2", "U2" >> /\ other.move_history = << >>
  /\ __eq__(state, other.state)

\* C26: reset() leaves the cube solved, with an empty move_history and
\* get_move_count() = 0, whatever moves and scrambles came before.
ResetGivesFreshCube ==
  [][Reset => /\ is_solved(state')
              /\ move_history' = << >>
              /\ get_move_count' = 0]_vars

ResetWitness ==
  /\ is_solved(state) /\ move_history = << >> /\ move_count = 2
  /\ scrambles # << >> /\ ~ other.made

\* C39: in every cube object that execute_move, execute_sequence, scramble,
\* reset and copy lead to, the attribute move_count is len(move_history), the
\* number get_move_count() returns.
MoveCountIsHistoryLength ==
  /\ move_count = get_move_count
  /\ other.made => other.move_count = Len(other.move_history)

\* C33: on every state that moves lead to from the solved state,
\* manhattan_distance, corner_edge_heuristic and combined_heuristic are 0 only
\* when the state is solved.
HeuristicsZeroOnlyWhenSolved ==
  (\/ manhattan_distance(state) = 0
   \/ corner_edge_heuristic(state) = 0
   \/ combined_heuristic(state) = 0) => is_solved(state)

\* C37: after k >= 1 moves on the solved cube estimate_moves_to_solve is
\* between 0 and 3k.
EstimateAtMostThreePerMove ==
  (start = _create_solved_state /\ Len(move_history) >= 1)
    => estimate_moves_to_solve(state) \in 0..(3 * Len(move_history))

\* C36: what optimize_sequence returns has no two consecutive moves on the
\* same face, and optimize_sequence leaves it as it is.
OptimizedIsCanonical ==
  /\ \A k \in 1..(Len(optimized) - 1) : face(optimized[k]) # face(optimized[k + 1])
  /\ optimize_sequence(optimized) = optimized

\* C35: _brute_force_solve returns no list of more than 100 moves: once the
\* accumulated sequence has more than 100 moves it returns None, and a list
\* it returns has at most 100 moves.
GreedyNeverReturnsOverHundred ==
  (pc = "done" /\ strategies # << >>
     /\ strategies[Len(strategies)] = "_brute_force_solve")
    => /\ returned = "list" => Len(result) <= 100
       /\ Len(solution) > 100 => returned = "None"

\* the scores of the 23 test cubes of one pass, in the order of the list
PatternScores(w) ==
  The({ AsTuple([k \in 1..Len(patterns) |->
                   _count_correct_pieces(execute_sequence(c, patterns[k]))],
                Len(patterns))
        : c \in {w} })

\* C34: each pass of the loop of _brute_force_solve (at most 50 passes) that
\* commits a pattern commits the first pattern of the list with the largest
\* score when that score is above the score of the working cube, and the
\* pattern at index iteration mod 23 otherwise; and a list is returned only
\* when it takes the cube handed to solved.
GreedyCommitsBestOrRotates ==
  [][/\ (pc = "brute_force" /\ solution' # solution) =>
          \E sc \in { PatternScores(working_cube) },
             cur \in { _count_correct_pieces(working_cube) },
             added \in { SubSeq(solution', Len(solution) + 1, Len(solution')) } :
            /\ iteration < 50
            /\ solution' = solution \o added
            /\ IF \E k \in 1..Len(patterns) : sc[k] > cur
               THEN \E k \in 1..Len(patterns) :
                      /\ added = patterns[k]
                      /\ \A j \in 1..Len(patterns) : sc[j] <= sc[k]
                      /\ \A j \in 1..(k - 1) : sc[j] < sc[k]
               ELSE added = patterns[(iteration % Len(patterns)) + 1]
            /\ working_cube' = execute_sequence(working_cube, added)
     /\ (pc = "brute_force" /\ returned' = "list") =>
          is_solved(execute_sequence(input.state, result'))]_vars

GreedyCommitsWitness ==
  /\ pc = "brute_force" /\ start = FarState /\ iteration = 4
  /\ solution = patterns[15] \o patterns[17] \o patterns[17] \o patterns[4]

\* the paths _depth_limited_search hands on: the empty one, and a path it
\* hands on extended by one of the valid moves it gets for that path
RECURSIVE Explored(_)
Explored(p) ==
  \/ p = << >>
  \/ /\ Explored(SubSeq(p, 1, Len(p) - 1))
     /\ \E v \in { _get_valid_moves(SubSeq(p, 1, Len(p) - 1)) } :
          \E k \in 1..Len(v) : v[k] = p[Len(p)]

\* no two consecutive moves of one face, no three consecutive moves with
\* faces A, B, A
NoFaceAgain(p) ==
  /\ \A k \in 1..(Len(p) - 1) : face(p[k]) # face(p[k + 1])
  /\ \A k \in 1..(Len(p) - 2) : face(p[k]) # face(p[k + 2])

\* C32: _get_valid_moves returns all 18 moves for the empty list; for
\* another list it returns, in the order of all_moves, exactly the moves
\* whose face is neither the face of the last move nor (for two moves or
\* more) the face of the move before it; so a path the depth-limited search
\* explores, and its extension by a valid move, never has two consecutive
\* moves of one face nor three consecutive moves with faces A, B, A.
ValidMovesAreOtherFaces ==
  (pc = "done" /\ returned = "list" /\ strategies = << >>) =>
    /\ path = << >> => result = all_moves
    /\ path # << >> =>
         result = SelectSeq(all_moves,
                    LAMBDA m :
                      /\ face(m) # face(path[Len(path)])
                      /\ Len(path) >= 2 => face(m) # face(path[Len(path) - 1]))
    /\ Explored(path) =>
         /\ NoFaceAgain(path)
         /\ \A k \in 1..Len(result) : NoFaceAgain(Append(path, result[k]))

ValidMovesWitness ==
  /\ pc = "done" /\ returned = "list"
  /\ path = << "R", "U" >>
  /\ result = << "D", "D'", "D2", "L", "L'", "L2", "F", "F'", "F2", "B", "B'", "B2" >>

\* some sequence of at most d of the 18 moves takes the state to solved
RECURSIVE Solvable(_, _)
Solvable(cube, d) ==
  \/ is_solved(cube)
  \/ /\ d > 0
     /\ \E move \in MoveSet :
          \E new_cube \in { apply_move(cube, move) } : Solvable(new_cube, d - 1)

\* C31: the pruning of the depth-limited search loses no solution: when
\* solve_iterative_deepening (max_depth of 1 or more, no pass longer than 10
\* seconds) returns None, no sequence of at most max_depth moves takes the
\* cube to solved, and when it returns a list, no sequence of fewer moves
\* than that list does.
PruningLosesNoSolution ==
  (pc = "done" /\ max_depth >= 1 /\ returned \in {"list", "None"}) =>
    /\ (returned = "None" /\ depth = max_depth) => ~ Solvable(input.state, max_depth)
    /\ returned = "list" =>
         \A n \in 0..(Len(result) - 1) : ~ Solvable(input.state, n)

\* C38: what solve returns does not depend on the heuristic name: called on
\* one cube under "manhattan", "corner_edge" and "combined", it returns the
\* same list, or None each time.
SolveIgnoresHeuristicName ==
  /\ \A i, j \in 1..Len(solutions) :
       /\ solutions[i].returned = solutions[j].returned
       /\ solutions[i].result = solutions[j].result
  /\ pc = "done" =>
       \A i \in 1..Len(solutions) :
         /\ solutions[i].returned = returned
         /\ solutions[i].result = result

SolveIgnoresHeuristicWitness ==
  /\ Len(solutions) = 3
  /\ { solutions[k].heuristic : k \in 1..3 } = valid_heuristics
  /\ move_history = << "U", "F" >>
  /\ solutions[3].returned = "list" /\ Len(solutions[3].result) = 2

\* C10 : solve called on a solved cube returns the empty list, starts no
\* strategy and expands no node, and the cube is still solved afterwards.
SolvedInputReturnsEmpty ==
  (pc # "idle" /\ returned # "ValueError" /\ input.state = _create_solved_state)
    => /\ pc = "done"
       /\ returned = "list"
       /\ result = << >>
       /\ strategies = << >>
       /\ expanded = 0
       /\ is_solved(state)

\* solve has returned from a call on a solved cube with a recognised heuristic
SolvedInputWitness ==
  /\ pc = "done"
  /\ returned = "list"
  /\ input.state = _create_solved_state
  /\ input.move_history = << >>

====
